---- MODULE Spec2Model ----
(***************************************************************************)
(* Model of the workflow analysis / naming engine and of the ingestion     *)
(* coordinator (new_workflow_analyzer.py, auto_add_workflow.py).           *)
(*                                                                         *)
(* Text is modelled as TLA+ strings, handled character by character, so    *)
(* that lower-casing, title-casing, substring tests, replacement and the   *)
(* filename sanitisation are computed the way the Python code computes     *)
(* them.  JSON documents are tagged values (JObj, JList, JStr, JNum).      *)
(***************************************************************************)
EXTENDS Integers, Sequences, FiniteSets, TLC

(***************************************************************************)
(* Python str primitives                                                   *)
(***************************************************************************)
\* the letters the model uses; str.lower, str.title and \w of re (on str
\* patterns) treat non-ASCII letters as letters
UpperChars == "ABCDEFGHIJKLMNOPQRSTUVWXYZÉ"
LowerChars == "abcdefghijklmnopqrstuvwxyzé"
DigitChars == "0123456789"

Chr(s, i) == SubSeq(s, i, i)

StrTail(s, i) == SubSeq(s, i, Len(s))

\* the characters of a string, as a set
CharsOf(s) == { Chr(s, i) : i \in 1..Len(s) }

\* position of the character c in a table of distinct characters, 0 when absent
IndexIn(c, s) ==
    IF \E i \in 1..Len(s) : Chr(s, i) = c
    THEN CHOOSE i \in 1..Len(s) : Chr(s, i) = c
    ELSE 0

UpperSet == CharsOf(UpperChars)
LowerSet == CharsOf(LowerChars)
DigitSet == CharsOf(DigitChars)

IsUpper(c) == c \in UpperSet
IsLower(c) == c \in LowerSet
IsDigit(c) == c \in DigitSet
IsAlpha(c) == IsUpper(c) \/ IsLower(c)

ToLowerTable == [ c \in UpperSet |-> Chr(LowerChars, IndexIn(c, UpperChars)) ]
ToUpperTable == [ c \in LowerSet |-> Chr(UpperChars, IndexIn(c, LowerChars)) ]

LowerChar(c) == IF IsUpper(c) THEN ToLowerTable[c] ELSE c
UpperChar(c) == IF IsLower(c) THEN ToUpperTable[c] ELSE c

\* str.lower()
RECURSIVE StrLower(_)
StrLower(s) ==
    IF Len(s) = 0 THEN "" ELSE LowerChar(Chr(s, 1)) \o StrLower(StrTail(s, 2))

\* str.title(): the first letter of every run of letters is upper-cased,
\* the other letters of the run are lower-cased; a non-letter ends the run.
RECURSIVE TitleFrom(_, _)
TitleFrom(s, prevCased) ==
    IF Len(s) = 0 THEN ""
    ELSE LET c == Chr(s, 1)
         IN  (IF IsAlpha(c)
              THEN (IF prevCased THEN LowerChar(c) ELSE UpperChar(c))
              ELSE c) \o TitleFrom(StrTail(s, 2), IsAlpha(c))

StrTitle(s) == TitleFrom(s, FALSE)

\* str.startswith(p)
StartsWith(s, p) == Len(p) <= Len(s) /\ SubSeq(s, 1, Len(p)) = p

\* str.endswith(p)
EndsWith(s, p) == Len(p) <= Len(s) /\ SubSeq(s, Len(s) - Len(p) + 1, Len(s)) = p

\* sub in s
Contains(s, sub) ==
    \E i \in 1..(Len(s) - Len(sub) + 1) : SubSeq(s, i, i + Len(sub) - 1) = sub

\* str.replace(old, new): every non-overlapping occurrence, left to right
RECURSIVE StrReplace(_, _, _)
StrReplace(s, old, new) ==
    IF Len(s) = 0 THEN ""
    ELSE IF StartsWith(s, old)
         THEN new \o StrReplace(StrTail(s, Len(old) + 1), old, new)
         ELSE Chr(s, 1) \o StrReplace(StrTail(s, 2), old, new)

\* characters in code-point order (the ones the model uses)
CodePointChars == " #$%&-./0123456789@ABCDEFGHIJKLMNOPQRSTUVWXYZ_abcdefghijklmnopqrstuvwxyzÉé"

OrdTable == [ c \in CharsOf(CodePointChars) |-> IndexIn(c, CodePointChars) ]

Ord(c) == OrdTable[c]

\* a < b for Python strings (code-point lexicographic order)
RECURSIVE StrLess(_, _)
StrLess(a, b) ==
    IF Len(b) = 0 THEN FALSE
    ELSE IF Len(a) = 0 THEN TRUE
    ELSE IF Chr(a, 1) = Chr(b, 1) THEN StrLess(StrTail(a, 2), StrTail(b, 2))
    ELSE Ord(Chr(a, 1)) < Ord(Chr(b, 1))

\* sorted(list(S)) for a set of strings
RECURSIVE SortedList(_)
SortedList(S) ==
    IF S = {} THEN << >>
    ELSE LET m == CHOOSE x \in S : \A y \in S \ {x} : StrLess(x, y)
         IN  << m >> \o SortedList(S \ {m})

\* str(n) for n >= 0
RECURSIVE IntToStr(_)
IntToStr(n) ==
    IF n < 10 THEN Chr(DigitChars, n + 1)
    ELSE IntToStr(n \div 10) \o Chr(DigitChars, (n % 10) + 1)

\* int(s) for a string of digits
RECURSIVE StrToInt(_)
StrToInt(s) ==
    IF Len(s) = 0 THEN 0
    ELSE 10 * StrToInt(SubSeq(s, 1, Len(s) - 1)) + (IndexIn(Chr(s, Len(s)), DigitChars) - 1)

RECURSIVE PadLeft(_, _, _)
PadLeft(s, width, c) == IF Len(s) >= width THEN s ELSE PadLeft(c \o s, width, c)

FilenameNumberWidth == 4

\* f"{n}" (no padding)
Unpadded(n) == IntToStr(n)

\* f"{n:04d}"
ZeroPad4(n) == PadLeft(IntToStr(n), FilenameNumberWidth, "0")

\* sep.join(parts)
RECURSIVE StrJoin(_, _)
StrJoin(parts, sep) ==
    IF Len(parts) = 0 THEN ""
    ELSE IF Len(parts) = 1 THEN parts[1]
    ELSE parts[1] \o sep \o StrJoin(Tail(parts), sep)

(***************************************************************************)
(* JSON values, as json.load returns them                                  *)
(***************************************************************************)
JStr(s)  == [t |-> "str",  v |-> s]
JNum(n)  == [t |-> "num",  v |-> n]
JList(q) == [t |-> "list", v |-> q]
JObj(f)  == [t |-> "obj",  v |-> f]
JNull    == [t |-> "null", v |-> 0]

\* dict.get(key, default)
DictGet(d, key, default) == IF key \in DOMAIN d.v THEN d.v[key] ELSE default

\* an exception propagating out of a call / a value returned by it
Raise(exc) == [raised |-> TRUE, exc |-> exc]
Return(val) == [raised |-> FALSE, val |-> val]

(***************************************************************************)
(* NewWorkflowAnalyzer: node inspection                                    *)
(***************************************************************************)
\* service_mapping of _analyze_nodes, with the keys spelled as in the source
service_mapping ==
    [ webhook |-> "Webhook", httpRequest |-> "HTTP", cron |-> "Cron",
      gmail |-> "Gmail", slack |-> "Slack", googleSheets |-> "GoogleSheets",
      airtable |-> "Airtable", notion |-> "Notion", telegram |-> "Telegram",
      discord |-> "Discord", twitter |-> "Twitter", github |-> "GitHub",
      hubspot |-> "HubSpot", salesforce |-> "Salesforce", stripe |-> "Stripe",
      shopify |-> "Shopify", trello |-> "Trello", asana |-> "Asana",
      clickup |-> "ClickUp", calendly |-> "Calendly", zoom |-> "Zoom",
      mattermost |-> "Mattermost", microsoftTeams |-> "Teams",
      googleCalendar |-> "GoogleCalendar", googleDrive |-> "GoogleDrive",
      dropbox |-> "Dropbox", onedrive |-> "OneDrive", aws |-> "AWS",
      azure |-> "Azure", googleCloud |-> "GCP", postgresql |-> "PostgreSQL",
      mysql |-> "MySQL", mongodb |-> "MongoDB", redis |-> "Redis",
      elasticsearch |-> "Elasticsearch", typeform |-> "Typeform",
      mailchimp |-> "Mailchimp", sendgrid |-> "SendGrid", twilio |-> "Twilio",
      openai |-> "OpenAI", anthropic |-> "Anthropic", replicate |-> "Replicate" ]

utility_nodes ==
    { "Set", "Function", "If", "Switch", "Merge", "StickyNote",
      "NoOp", "Code", "Execute", "Split", "Wait", "Stop" }

NodePrefix == "n8n-nodes-base."

\* the trigger classification after one more node of type node_type
NodeTrigger(trigger_type, node_type) ==
    LET lt == StrLower(node_type)
    IN  IF Contains(lt, "webhook") \/ Contains(lt, "http") THEN "Webhook"
        ELSE IF Contains(lt, "cron") \/ Contains(lt, "schedule") \/ Contains(lt, "interval")
             THEN "Scheduled"
        ELSE IF Contains(lt, "trigger") /\ trigger_type = "Manual" THEN "Triggered"
        ELSE trigger_type

\* the services contributed by one node of type node_type (none or one)
NodeService(node_type) ==
    IF StartsWith(node_type, NodePrefix)
    THEN LET service == StrReplace(StrReplace(StrReplace(node_type, NodePrefix, ""),
                                              "Trigger", ""), "trigger", "")
             key == StrLower(service)
             clean_service == IF key \in DOMAIN service_mapping
                              THEN service_mapping[key]
                              ELSE StrTitle(service)
         IN  IF clean_service \notin utility_nodes THEN {clean_service} ELSE {}
    ELSE {}

\* one iteration of the loop of _analyze_nodes; acc is Raise(..) or
\* Return([services, trigger_type])
AnalyzeNode(acc, node) ==
    IF acc.raised THEN acc
    ELSE IF node.t # "obj" THEN Raise("AttributeError")        \* node.get
    ELSE LET node_type == DictGet(node, "type", JStr(""))
         IN  IF node_type.t # "str" THEN Raise("AttributeError")   \* node_type.lower
             ELSE Return([ services |-> acc.val.services \cup NodeService(node_type.v),
                           trigger_type |-> NodeTrigger(acc.val.trigger_type, node_type.v) ])

RECURSIVE AnalyzeNodeList(_, _)
AnalyzeNodeList(acc, q) ==
    IF Len(q) = 0 THEN acc ELSE AnalyzeNodeList(AnalyzeNode(acc, Head(q)), Tail(q))

\* len(x) of a JSON container
JLen(x) ==
    IF x.t = "obj" THEN Cardinality(DOMAIN x.v) ELSE Len(x.v)

\* _analyze_nodes(nodes): nodes is whatever data.get('nodes', []) returned.
\* Iterating a str or a dict yields strings, on which node.get fails;
\* a number or null is not iterable.
AnalyzeNodes(nodes) ==
    LET start == Return([services |-> {}, trigger_type |-> "Manual"])
    IN  IF nodes.t = "list" THEN AnalyzeNodeList(start, nodes.v)
        ELSE IF nodes.t \in {"str", "obj"}
             THEN (IF JLen(nodes) = 0 THEN start ELSE Raise("AttributeError"))
        ELSE Raise("TypeError")

(***************************************************************************)
(* NewWorkflowAnalyzer: purpose, complexity, credentials                   *)
(***************************************************************************)
purpose_keywords ==
    << [purpose |-> "create",   keywords |-> {"create", "add", "new", "generate", "build", "make"}],
       [purpose |-> "update",   keywords |-> {"update", "modify", "change", "edit", "patch", "refresh"}],
       [purpose |-> "sync",     keywords |-> {"sync", "synchronize", "mirror", "replicate", "match"}],
       [purpose |-> "send",     keywords |-> {"send", "email", "message", "notify", "alert", "push"}],
       [purpose |-> "import",   keywords |-> {"import", "load", "fetch", "get", "retrieve", "pull"}],
       [purpose |-> "export",   keywords |-> {"export", "save", "backup", "archive", "download"}],
       [purpose |-> "monitor",  keywords |-> {"monitor", "check", "watch", "track", "status", "health"}],
       [purpose |-> "process",  keywords |-> {"process", "transform", "convert", "parse", "analyze"}],
       [purpose |-> "automate", keywords |-> {"automate", "workflow", "bot", "automation", "routine"}],
       [purpose |-> "manage",   keywords |-> {"manage", "organize", "admin", "control", "handle"}] >>

\* the lower-cased type strings of a list of node objects
LowerNodeTypes(nodes) ==
    IF nodes.t = "list"
    THEN { StrLower(DictGet(nodes.v[i], "type", JStr("")).v) : i \in 1..Len(nodes.v) }
    ELSE {}

\* any(keyword in name_lower for keyword in keywords) for the i-th category
PurposeHit(name_lower, i) ==
    \E k \in purpose_keywords[i].keywords : Contains(name_lower, k)

\* any(x in nt for nt in node_types), for one of the substrings
AnyNodeType(node_types, substrings) ==
    \E nt \in node_types : \E x \in substrings : Contains(nt, x)

\* the node hints if 'update' / 'edit' were looked for first
PurposeFromNodesUpdateFirst(node_types) ==
    IF AnyNodeType(node_types, {"update", "edit"}) THEN "Update"
    ELSE IF AnyNodeType(node_types, {"create", "add"}) THEN "Create"
    ELSE IF AnyNodeType(node_types, {"send", "email", "message"}) THEN "Send"
    ELSE "Automation"

\* the purpose hinted at by the node types
PurposeFromNodes(node_types) ==
    IF AnyNodeType(node_types, {"create", "add"}) THEN "Create"
    ELSE IF AnyNodeType(node_types, {"update", "edit"}) THEN "Update"
    ELSE IF AnyNodeType(node_types, {"send", "email", "message"}) THEN "Send"
    ELSE "Automation"

\* the loop over purpose_keywords, from the i-th category on
RECURSIVE PurposeFrom(_, _, _)
PurposeFrom(name_lower, nodes, i) ==
    IF i > Len(purpose_keywords) THEN PurposeFromNodes(LowerNodeTypes(nodes))
    ELSE IF PurposeHit(name_lower, i) THEN StrTitle(purpose_keywords[i].purpose)
    ELSE PurposeFrom(name_lower, nodes, i + 1)

\* _determine_purpose(name, nodes); nodes has passed _analyze_nodes
DeterminePurpose(name, nodes) ==
    IF name.t # "str" THEN Raise("AttributeError")              \* name.lower
    ELSE Return(PurposeFrom(StrLower(name.v), nodes, 1))

SimpleMaxNodes == 5
StandardMaxNodes == 15

\* the classification with the limits taken as strict
DetermineComplexityStrict(node_count) ==
    IF node_count < SimpleMaxNodes THEN "Simple"
    ELSE IF node_count < StandardMaxNodes THEN "Standard"
    ELSE "Complex"

DetermineComplexity(node_count) ==
    IF node_count <= SimpleMaxNodes THEN "Simple"
    ELSE IF node_count <= StandardMaxNodes THEN "Standard"
    ELSE "Complex"

\* _has_credentials(nodes): a truthy 'credentials' member on some node
HasCredentials(nodes) ==
    /\ nodes.t = "list"
    /\ \E i \in 1..Len(nodes.v) :
          LET c == DictGet(nodes.v[i], "credentials", JNull)
          IN  /\ c.t # "null"
              /\ (c.t \in {"str", "list", "obj"} => JLen(c) > 0)
              /\ (c.t = "num" => c.v # 0)

(***************************************************************************)
(* NewWorkflowAnalyzer: filename synthesis                                 *)
(***************************************************************************)
\* a character the pattern [^\w\-_] leaves in place: \w is every letter
\* (IsAlpha, non-ASCII letters too), every digit and the underscore
IsWordChar(c) == IsAlpha(c) \/ IsDigit(c) \/ c = "_" \/ c = "-"

\* re.sub(r'[^\w\-_]', '', s)
RECURSIVE RemoveSpecialChars(_)
RemoveSpecialChars(s) ==
    IF Len(s) = 0 THEN ""
    ELSE (IF IsWordChar(Chr(s, 1)) THEN Chr(s, 1) ELSE "") \o RemoveSpecialChars(StrTail(s, 2))

\* re.sub(r'_+', '_', s)
RECURSIVE CollapseUnderscores(_)
CollapseUnderscores(s) ==
    IF Len(s) = 0 THEN ""
    ELSE IF Len(s) >= 2 /\ Chr(s, 1) = "_" /\ Chr(s, 2) = "_"
         THEN CollapseUnderscores(StrTail(s, 2))
         ELSE Chr(s, 1) \o CollapseUnderscores(StrTail(s, 2))

\* s.strip('_')
RECURSIVE StripUnderscores(_)
StripUnderscores(s) ==
    IF Len(s) = 0 THEN ""
    ELSE IF Chr(s, 1) = "_" THEN StripUnderscores(StrTail(s, 2))
    ELSE IF Chr(s, Len(s)) = "_" THEN StripUnderscores(SubSeq(s, 1, Len(s) - 1))
    ELSE s

MaxServicesInName == 2

\* q[:] (no limit)
TakeAll(q, n) == q

\* q[:n]
Take(q, n) == SubSeq(q, 1, IF Len(q) < n THEN Len(q) ELSE n)

\* the components of the name if the trigger type were appended in every case
FilenamePartsTriggerAlways(next_number, services_list, purpose, trigger_type) ==
    << ZeroPad4(next_number) >>
    \o (IF Len(services_list) > 0 THEN services_list ELSE << "Manual" >>)
    \o << purpose, trigger_type >>

\* the components of the name, in order
FilenameParts(next_number, services_list, purpose, trigger_type) ==
    << ZeroPad4(next_number) >>
    \o (IF Len(services_list) > 0 THEN services_list ELSE << "Manual" >>)
    \o << purpose >>
    \o (IF trigger_type \notin {"Manual", "Triggered"} THEN << trigger_type >> ELSE << >>)

\* the three clean-up steps applied to the joined name
CleanFilename(filename) ==
    StripUnderscores(CollapseUnderscores(RemoveSpecialChars(filename)))

\* _generate_filename(services, purpose, trigger_type) with self.next_number
GenerateFilename(next_number, services, purpose, trigger_type) ==
    CleanFilename(StrJoin(FilenameParts(next_number,
                                        Take(SortedList(services), MaxServicesInName),
                                        purpose, trigger_type), "_")) \o ".json"

(***************************************************************************)
(* The files the operations are applied to                                 *)
(***************************************************************************)
Node(type) == JObj([type |-> JStr(type)])

EmptyObj == JObj(<< >>)

Doc(json) == [exists |-> TRUE, ok |-> TRUE, json |-> json]

\* a file whose bytes json.load rejects
Malformed == [exists |-> TRUE, ok |-> FALSE, json |-> JNull]

Absent == [exists |-> FALSE, ok |-> FALSE, json |-> JNull]

GmailWorkflow ==
    JObj([ name |-> JStr("Send Email Report"),
           nodes |-> JList(<< Node("n8n-nodes-base.gmail") >>),
           connections |-> EmptyObj ])

SlackWorkflow ==
    JObj([ name |-> JStr("Slack Alerts"),
           nodes |-> JList(<< Node("n8n-nodes-base.webhook"), Node("n8n-nodes-base.slack") >>),
           connections |-> EmptyObj ])

UtilityWorkflow ==
    JObj([ nodes |-> JList(<< Node("n8n-nodes-base.set"), Node("n8n-nodes-base.function"),
                              Node("n8n-nodes-base.if") >>),
           connections |-> EmptyObj ])

\* the source files offered to the analyzer and the adder: path |-> file
SourceFiles ==
    ( "missing.json"  :> Absent ) @@
    ( "notes.txt"     :> Doc(GmailWorkflow) ) @@
    ( "broken.json"   :> Malformed ) @@
    ( "list.json"     :> Doc(JList(<< JStr("nodes"), JStr("connections") >>)) ) @@
    ( "text.json"     :> Doc(JStr("nodes and connections")) ) @@
    ( "num.json"      :> Doc(JNum(7)) ) @@
    ( "nokeys.json"   :> Doc(JObj([name |-> JStr("Send"), connections |-> EmptyObj])) ) @@
    ( "gmail.json"    :> Doc(GmailWorkflow) ) @@
    ( "slack.json"    :> Doc(SlackWorkflow) ) @@
    ( "util.json"     :> Doc(UtilityWorkflow) ) @@
    ( "notype.json"   :> Doc(JObj([ name |-> JStr("Plain"),
                                    nodes |-> JList(<< JObj([name |-> JStr("n")]) >>),
                                    connections |-> EmptyObj ])) ) @@
    ( "badnode.json"  :> Doc(JObj([ nodes |-> JList(<< JStr("n8n-nodes-base.gmail") >>),
                                    connections |-> EmptyObj ])) ) @@
    ( "badtype.json"  :> Doc(JObj([ nodes |-> JList(<< JObj([type |-> JNum(5)]) >>),
                                    connections |-> EmptyObj ])) ) @@
    ( "nodesnum.json" :> Doc(JObj([ nodes |-> JNum(5), connections |-> EmptyObj ])) ) @@
    ( "badname.json"  :> Doc(JObj([ name |-> JNum(5), nodes |-> JList(<< >>),
                                    connections |-> EmptyObj ])) )

Sources == DOMAIN SourceFiles

\* the content of a corpus file: whose bytes it holds, and whether all of them
Seed == [src |-> "seed", complete |-> TRUE]

\* the corpus directories the program may be started on
InitialDirs ==
    { [exists |-> FALSE, files |-> << >>],
      [exists |-> TRUE,  files |-> << >>],
      [exists |-> TRUE,  files |-> ( "0001_Gmail_Send.json" :> Seed ) @@
                                    ( "0002_Slack_Send.json" :> Seed ) @@
                                    ( "0003_notes.txt" :> Seed ) @@
                                    ( "0005_Manual_Automation.json" :> Seed )],
      [exists |-> TRUE,  files |-> ( "9999_Manual_Automation.json" :> Seed ) @@
                                    ( "10000_Manual_Automation.json" :> Seed ) @@
                                    ( "invalid_name.json" :> Seed )] }

(***************************************************************************)
(* NewWorkflowAnalyzer: the registry                                       *)
(***************************************************************************)
\* glob.glob(os.path.join(workflows_dir, "*"))
GlobAll(names) == { f \in names : ~StartsWith(f, ".") }

\* glob "*.json" (which skips dot files)
GlobJson(names) == { f \in names : EndsWith(f, ".json") /\ ~StartsWith(f, ".") }

\* re.match(r'(\d{4})_', filename)
MatchesNumberPrefix(f) ==
    /\ Len(f) >= FilenameNumberWidth + 1
    /\ \A i \in 1..FilenameNumberWidth : IsDigit(Chr(f, i))
    /\ Chr(f, FilenameNumberWidth + 1) = "_"

\* _get_existing_numbers on a directory with the given file names
GetExistingNumbers(exists, names) ==
    IF ~exists THEN {}
    ELSE { StrToInt(SubSeq(f, 1, FilenameNumberWidth)) :
              f \in { g \in GlobJson(names) : MatchesNumberPrefix(g) } }

SetMax(S) == CHOOSE m \in S : \A x \in S : x <= m

\* _get_next_available_number
GetNextAvailableNumber(existing_numbers) ==
    IF existing_numbers = {} THEN 1 ELSE SetMax(existing_numbers) + 1

\* NewWorkflowAnalyzer.__init__
NewAnalyzer(exists, names) ==
    LET numbers == GetExistingNumbers(exists, names)
    IN  [existing_numbers |-> numbers, next_number |-> GetNextAvailableNumber(numbers)]

(***************************************************************************)
(* NewWorkflowAnalyzer.analyze_workflow_file                               *)
(***************************************************************************)
Failure(error) == [success |-> FALSE, error |-> error]

\* the report fields that depend on the document alone, once the nodes
\* have been inspected (an) and the purpose determined (pu)
DocumentFields(nodes, an, pu) ==
    IF pu.raised THEN pu
    ELSE Return([ services |-> an.val.services,
                  trigger_type |-> an.val.trigger_type,
                  purpose |-> pu.val,
                  node_count |-> JLen(nodes),
                  has_credentials |-> HasCredentials(nodes) ])

\* _determine_purpose runs only when _analyze_nodes has returned
DocumentAfterNodes(workflow_name, nodes, an) ==
    IF an.raised THEN an
    ELSE DocumentFields(nodes, an, DeterminePurpose(workflow_name, nodes))

DocumentNodes(workflow_name, nodes) ==
    DocumentAfterNodes(workflow_name, nodes, AnalyzeNodes(nodes))

\* the part of analyze_workflow_file that depends on the document alone
DocumentAnalysis(path, data) ==
    IF data.t # "obj" THEN Raise("AttributeError")               \* data.get
    ELSE DocumentNodes(DictGet(data, "name", JStr(StrReplace(path, ".json", ""))),
                       DictGet(data, "nodes", JList(<< >>)))

\* the success report for a document whose fields are d
Report(next_number, path, d) ==
    [ success |-> TRUE,
      original_filename |-> path,
      suggested_filename |-> GenerateFilename(next_number, d.services, d.purpose,
                                              d.trigger_type),
      services |-> d.services,
      purpose |-> d.purpose,
      trigger_type |-> d.trigger_type,
      node_count |-> d.node_count,
      next_number |-> next_number,
      complexity |-> DetermineComplexity(d.node_count),
      has_credentials |-> d.has_credentials,
      integrations_count |-> Cardinality(d.services) ]

ReportOrRaise(next_number, path, da) ==
    IF da.raised THEN da ELSE Return(Report(next_number, path, da.val))

\* what analyze_workflow_file does with the file it was given
AnalyzeFile(next_number, path, file) ==
    IF ~file.exists THEN Raise("FileNotFoundError")               \* open
    ELSE IF ~file.ok THEN Return(Failure("Failed to read workflow file"))
    ELSE ReportOrRaise(next_number, path, DocumentAnalysis(path, file.json))

\* analyze_workflow_file(file_path) on an analyzer whose next_number is given
AnalyzeWorkflowFile(next_number, path) ==
    AnalyzeFile(next_number, path, SourceFiles[path])

(***************************************************************************)
(* AutoWorkflowAdder._validate_workflow_file                               *)
(***************************************************************************)
\* key in data, for whatever json.load returned
JsonIn(key, data) ==
    IF data.t = "obj" THEN Return(key \in DOMAIN data.v)
    ELSE IF data.t = "list"
         THEN Return(\E i \in 1..Len(data.v) : data.v[i].t = "str" /\ data.v[i].v = key)
    ELSE IF data.t = "str" THEN Return(Contains(data.v, key))
    ELSE Raise("TypeError")

\* the None that _validate_workflow_file returns when every check passes
ValidationPassed == [success |-> TRUE, error |-> "None"]

\* the test 'nodes' not in data or 'connections' not in data, inside the try
CheckKeys(has_nodes, has_connections) ==
    IF has_nodes.raised THEN Failure("Error reading file")
    ELSE IF ~has_nodes.val THEN Failure("missing 'nodes' or 'connections'")
    ELSE IF has_connections.raised THEN Failure("Error reading file")
    ELSE IF ~has_connections.val THEN Failure("missing 'nodes' or 'connections'")
    ELSE ValidationPassed

ValidateFile(path, file) ==
    IF ~file.exists THEN Failure("not found")
    ELSE IF ~EndsWith(path, ".json") THEN Failure("is not a JSON file")
    ELSE IF ~file.ok THEN Failure("Error decoding JSON")
    ELSE CheckKeys(JsonIn("nodes", file.json), JsonIn("connections", file.json))

\* _validate_workflow_file(file_path): ValidationPassed, or the failure result
ValidateWorkflowFile(path) == ValidateFile(path, SourceFiles[path])

(***************************************************************************)
(* State                                                                   *)
(*   corpus    the corpus directory: file name |-> content                 *)
(*   analyzer  per adder, its NewWorkflowAnalyzer (the registry)           *)
(*   pc, call  per adder, where its add_workflow call stands: "idle", or   *)
(*             "copy" when it has passed the collision check and is about  *)
(*             to run shutil.copy2; call holds the locals of that call     *)
(*   result    the most recent operation and what it returned (or raised)  *)
(*   batch     the add_multiple_workflows call in progress, or its outcome *)
(*   probe     the last call of one of the analyzer's helper functions:    *)
(*             its name, its arguments and what it returned                *)
(*   server    the API server process: is_reindexing_flag, the request     *)
(*             handler on the event loop, the background tasks, and the    *)
(*             added files no index run has started after                  *)
(*   cli       the run of main (auto_add_workflow.py) on explicit file     *)
(*             arguments: where it stands, and the exit code               *)
(***************************************************************************)
VARIABLES corpus, analyzer, pc, call, result, batch, probe, server, cli

vars == << corpus, analyzer, pc, call, result, batch, probe, server, cli >>

\* the AutoWorkflowAdder instances (processes) working on the directory
Adders == {"A", "B"}

\* how many files the adders may add to the initial directory
MaxAdded == 2

\* the values next_number can take within MaxAdded additions
InitialNextNumbers ==
    { NewAnalyzer(d.exists, DOMAIN d.files).next_number : d \in InitialDirs }

RegistryNumbers == { n + i : n \in InitialNextNumbers, i \in 0..(MaxAdded + 2) }

\* analyze_workflow_file and _validate_workflow_file, tabulated for the
\* source files and the registry numbers of the model
AnalysisTable ==
    [ k \in { << n, p >> : n \in RegistryNumbers, p \in Sources } |->
        AnalyzeWorkflowFile(k[1], k[2]) ]

ValidationTable == [ p \in Sources |-> ValidateWorkflowFile(p) ]

AddedFiles == { f \in DOMAIN corpus : corpus[f].src # "seed" }

NoCall == [src |-> "none", target |-> "none", number |-> 0]

\* an operation, who ran it, on which source, with dry_run or not, and what
\* it returned or raised
Outcome(op, by, src, dry_run, out) ==
    [op |-> op, by |-> by, src |-> src, dry_run |-> dry_run, out |-> out]

NoOutcome == Return([success |-> TRUE, action |-> "none"])

\* os.path.exists(os.path.join(workflows_dir, name))
TargetExists(name) == name \in DOMAIN corpus

\* the directory after name has been (re)written with content
WriteFile(dir, name, content) ==
    [ f \in (DOMAIN dir) \cup {name} |-> IF f = name THEN content ELSE dir[f] ]

\* no add_multiple_workflows call has been made
NoBatch ==
    [ status |-> "idle", by |-> "none", files |-> << >>, todo |-> << >>,
      auto_confirm |-> FALSE, dry_run |-> FALSE, success |-> TRUE,
      total_files |-> 0, successful |-> 0, failed |-> 0, results |-> << >> ]

\* no helper function has been called
NoProbe == [fn |-> "none"]

\* the API server after start-up: is_reindexing_flag = False, no request
NoServer ==
    [ is_reindexing_flag |-> FALSE, handler |-> "idle", tasks |-> << >>,
      unindexed |-> {}, response |-> "none" ]

\* main has not been run
NoCli ==
    [ status |-> "idle", files |-> << >>, auto_confirm |-> FALSE, dry_run |-> FALSE,
      exit |-> 0, raised |-> FALSE ]

Init ==
    /\ batch = NoBatch
    /\ cli = NoCli
    /\ probe = NoProbe
    /\ server = NoServer
    /\ \E d \in InitialDirs :
          /\ corpus = d.files
          /\ analyzer = [a \in Adders |-> NewAnalyzer(d.exists, DOMAIN d.files)]
    /\ pc = [a \in Adders |-> "idle"]
    /\ call = [a \in Adders |-> NoCall]
    /\ result = Outcome("init", "none", "none", FALSE, NoOutcome)

\* AutoWorkflowAdder(workflows_dir): a new adder (a restarted process) scans
\* the directory, which exists from the first construction on
Construct(a) ==
    /\ pc[a] = "idle"
    /\ analyzer' = [analyzer EXCEPT ![a] = NewAnalyzer(TRUE, DOMAIN corpus)]
    /\ result' = Outcome("construct", a, "none", FALSE, NoOutcome)
    /\ UNCHANGED << corpus, pc, call >>

\* an analysis that reserves the number it reports (a peek that consumes)
AnalyzeReserving(a, path) ==
    /\ pc[a] = "idle"
    /\ result' = Outcome("analyze", a, path, FALSE,
                         AnalysisTable[<< analyzer[a].next_number, path >>])
    /\ analyzer' = [analyzer EXCEPT ![a] =
                      [ existing_numbers |-> @.existing_numbers \cup {@.next_number},
                        next_number |-> @.next_number + 1 ]]
    /\ UNCHANGED << corpus, pc, call >>

\* analyzer.analyze_workflow_file(path)
Analyze(a, path) ==
    /\ pc[a] = "idle"
    /\ result' = Outcome("analyze", a, path, FALSE,
                       AnalysisTable[<< analyzer[a].next_number, path >>])
    /\ UNCHANGED << corpus, analyzer, pc, call >>

\* str.strip() of the blanks around an answer
RECURSIVE StrStrip(_)
StrStrip(s) ==
    IF Len(s) = 0 THEN ""
    ELSE IF Chr(s, 1) = " " THEN StrStrip(StrTail(s, 2))
    ELSE IF Chr(s, Len(s)) = " " THEN StrStrip(SubSeq(s, 1, Len(s) - 1))
    ELSE s

\* what the user would type at the confirmation prompt, if it is shown
Answers == {"YES ", "no"}

\* input(...).lower().strip() in ['yes', 'y']
Confirmed(answer) == StrStrip(StrLower(answer)) \in {"yes", "y"}

\* the success results of add_workflow; "proceed" stands for going on to
\* shutil.copy2
AddResult(action, path, analysis) ==
    [ success |-> TRUE, action |-> action, source_file |-> path,
      target_file |-> analysis.suggested_filename,
      number |-> analysis.next_number ]

\* add_workflow with the dry-run report placed before the collision check
AddAfterAnalysisDryRunFirst(path, analysis, auto_confirm, dry_run, answer) ==
    IF dry_run THEN AddResult("dry_run", path, analysis)
    ELSE IF TargetExists(analysis.suggested_filename)
    THEN Failure("already exists in repository")
    ELSE IF ~auto_confirm /\ ~Confirmed(answer)
    THEN Failure("Operation cancelled by user.")
    ELSE AddResult("proceed", path, analysis)

\* add_workflow without the collision check of lines 63-68
AddAfterAnalysisUnchecked(path, analysis, auto_confirm, dry_run, answer) ==
    IF ~auto_confirm /\ ~dry_run /\ ~Confirmed(answer)
    THEN Failure("Operation cancelled by user.")
    ELSE IF dry_run THEN AddResult("dry_run", path, analysis)
    ELSE AddResult("proceed", path, analysis)

\* add_workflow with the confirmation placed before the collision check
AddAfterAnalysisConfirmFirst(path, analysis, auto_confirm, dry_run, answer) ==
    IF ~auto_confirm /\ ~dry_run /\ ~Confirmed(answer)
    THEN Failure("Operation cancelled by user.")
    ELSE IF TargetExists(analysis.suggested_filename)
    THEN Failure("already exists in repository")
    ELSE IF dry_run THEN AddResult("dry_run", path, analysis)
    ELSE AddResult("proceed", path, analysis)

\* add_workflow after a successful analysis, up to the copy
AddAfterAnalysis(path, analysis, auto_confirm, dry_run, answer) ==
    IF TargetExists(analysis.suggested_filename)
    THEN Failure("already exists in repository")
    ELSE IF ~auto_confirm /\ ~dry_run /\ ~Confirmed(answer)
    THEN Failure("Operation cancelled by user.")
    ELSE IF dry_run THEN AddResult("dry_run", path, analysis)
    ELSE AddResult("proceed", path, analysis)

\* add_workflow after validation, up to the copy
AddAfterValidation(path, validation_result, analysis, auto_confirm, dry_run, answer) ==
    IF ~validation_result.success THEN Return(validation_result)
    ELSE IF analysis.raised THEN analysis
    ELSE IF ~analysis.val.success THEN Return(analysis.val)
    ELSE Return(AddAfterAnalysis(path, analysis.val, auto_confirm, dry_run, answer))

\* add_workflow up to the copy: what it returns (or raises) when it ends
\* before the copy, and "proceed" when it goes on to shutil.copy2
AddWorkflowUntilCopy(next_number, path, auto_confirm, dry_run, answer) ==
    AddAfterValidation(path, ValidationTable[path], AnalysisTable[<< next_number, path >>],
                       auto_confirm, dry_run, answer)

Proceeds(r) == ~r.raised /\ r.val.success /\ r.val.action = "proceed"

\* the call either returns r, or stands before the copy
AddBeginEffect(a, path, dry_run, r) ==
    IF Proceeds(r)
    THEN /\ pc' = [pc EXCEPT ![a] = "copy"]
         /\ call' = [call EXCEPT ![a] = [ src |-> path, target |-> r.val.target_file,
                                          number |-> r.val.number ]]
         /\ UNCHANGED result
    ELSE /\ result' = Outcome("add", a, path, dry_run, r)
         /\ UNCHANGED << pc, call >>

\* add_workflow(path, auto_confirm, dry_run), from its start to shutil.copy2
AddBegin(a, path, auto_confirm, dry_run, answer) ==
    /\ pc[a] = "idle"
    /\ dry_run \/ Cardinality(AddedFiles) < MaxAdded
    /\ AddBeginEffect(a, path, dry_run,
                      AddWorkflowUntilCopy(analyzer[a].next_number, path,
                                           auto_confirm, dry_run, answer))
    /\ UNCHANGED << corpus, analyzer >>

\* how shutil.copy2 can end: done; refused before the target is created;
\* failed part-way through the write; failed in copystat after the write
CopyOutcomes == {"copied", "refused", "partial", "metadata"}

\* a copy that writes the target but not all of the source's bytes
CopyFileTruncating(dir, src, target, outcome) ==
    IF outcome = "refused" THEN dir
    ELSE WriteFile(dir, target, [src |-> src, complete |-> FALSE])

\* the directory after shutil.copy2(src, target) ended with the outcome
CopyFile(dir, src, target, outcome) ==
    IF outcome = "refused" THEN dir
    ELSE WriteFile(dir, target, [src |-> src, complete |-> (outcome # "partial")])

\* existing_numbers.add(number) without the recomputation of next_number
\* (line 97 left out)
CommitNumberStale(an, number) ==
    [ existing_numbers |-> an.existing_numbers \cup {number},
      next_number |-> an.next_number ]

\* the registry after existing_numbers.add(number) and the recomputation
CommitNumber(an, number) ==
    [ existing_numbers |-> an.existing_numbers \cup {number},
      next_number |-> GetNextAvailableNumber(an.existing_numbers \cup {number}) ]

\* a registry that is committed whether or not the copy succeeded
RegistryCommitAlways(an, number, outcome) == CommitNumber(an, number)

\* the registry after the try block of add_workflow
RegistryAfterCopy(an, number, outcome) ==
    IF outcome = "copied" THEN CommitNumber(an, number) ELSE an

\* what add_workflow returns after the try block
ResultAfterCopy(c, outcome) ==
    IF outcome = "copied"
    THEN [ success |-> TRUE, action |-> "added", source_file |-> c.src,
           target_file |-> c.target, number |-> c.number ]
    ELSE Failure("Failed to copy file")

\* the rest of add_workflow: the copy, the commit and the result
AddCopy(a, outcome) ==
    /\ pc[a] = "copy"
    /\ corpus' = CopyFile(corpus, call[a].src, call[a].target, outcome)
    /\ analyzer' = [analyzer EXCEPT ![a] = RegistryAfterCopy(@, call[a].number, outcome)]
    /\ result' = Outcome("add", a, call[a].src, FALSE,
                       Return(ResultAfterCopy(call[a], outcome)))
    /\ pc' = [pc EXCEPT ![a] = "idle"]
    /\ call' = [call EXCEPT ![a] = NoCall]

Booleans == {TRUE, FALSE}

\* the uploads that arrive while several adders are at work
SharedSources == {"gmail.json", "slack.json"}

DoConstruct == (\E a \in Adders : Construct(a)) /\ UNCHANGED << batch, probe, server, cli >>

DoAnalyze ==
    /\ \E a \in Adders : \E p \in SharedSources : Analyze(a, p)
    /\ UNCHANGED << batch, probe, server, cli >>

DoAddBegin ==
    /\ \E a \in Adders : \E p \in SharedSources : \E ac \in Booleans : \E dr \in Booleans :
          \E ans \in Answers : AddBegin(a, p, ac, dr, ans)
    /\ UNCHANGED << batch, probe, server, cli >>

DoAddCopy ==
    /\ \E a \in Adders : \E o \in CopyOutcomes : AddCopy(a, o)
    /\ UNCHANGED << batch, probe, server, cli >>

Next == DoConstruct \/ DoAnalyze \/ DoAddBegin \/ DoAddCopy

\* several adders (processes, requests) work on the same corpus directory
Spec == Init /\ [][Next]_vars

SoloConstruct == Construct("A") /\ UNCHANGED << batch, probe, server, cli >>

SoloAnalyze ==
    /\ \E p \in Sources : Analyze("A", p)
    /\ UNCHANGED << batch, probe, server, cli >>

SoloAddBegin ==
    /\ \E p \in Sources : \E ac \in Booleans : \E dr \in Booleans :
          \E ans \in Answers : AddBegin("A", p, ac, dr, ans)
    /\ UNCHANGED << batch, probe, server, cli >>

SoloAddCopy ==
    /\ \E o \in CopyOutcomes : AddCopy("A", o)
    /\ UNCHANGED << batch, probe, server, cli >>

SoloNext == SoloConstruct \/ SoloAnalyze \/ SoloAddBegin \/ SoloAddCopy

\* one adder, and nobody else touches the directory
SpecSolo == Init /\ [][SoloNext]_vars

(***************************************************************************)
(* AutoWorkflowAdder.add_multiple_workflows                                *)
(***************************************************************************)
\* the source files a batch is made of
BatchSources == {"gmail.json", "slack.json", "broken.json", "list.json"}

\* the longest list given to add_multiple_workflows
MaxBatch == 2

BatchLists == UNION { [1..n -> BatchSources] : n \in 0..MaxBatch }

\* the results dictionary add_multiple_workflows starts with
RunningBatch(a, source_files, auto_confirm, dry_run) ==
    [ status |-> "running", by |-> a, files |-> source_files,
      todo |-> source_files, auto_confirm |-> auto_confirm,
      dry_run |-> dry_run, success |-> TRUE,
      total_files |-> Len(source_files), successful |-> 0,
      failed |-> 0, results |-> << >> ]

\* add_multiple_workflows(source_files, auto_confirm, dry_run) up to the loop
BatchStart(a, source_files, auto_confirm, dry_run) ==
    /\ pc[a] = "idle"
    /\ batch.status # "running"
    /\ batch' = RunningBatch(a, source_files, auto_confirm, dry_run)
    /\ UNCHANGED << corpus, analyzer, pc, call, result, probe, server, cli >>

\* the rest of one iteration, once add_workflow has returned a result
BatchCount(b, item) ==
    [ b EXCEPT !.todo = Tail(b.todo),
               !.results = Append(b.results, item),
               !.successful = IF item.success THEN b.successful + 1 ELSE b.successful,
               !.failed = IF item.success THEN b.failed ELSE b.failed + 1 ]

\* the batch after add_workflow has returned, or raised: an exception leaves
\* the loop and add_multiple_workflows
BatchAfterItem(b, out) ==
    IF out.raised THEN [b EXCEPT !.status = "raised"] ELSE BatchCount(b, out.val)

\* one iteration of the loop, from its start to shutil.copy2 or to its end
BatchItemBegin(a, answer) ==
    /\ batch.status = "running"
    /\ batch.by = a
    /\ batch.todo # << >>
    /\ AddBegin(a, Head(batch.todo), batch.auto_confirm, batch.dry_run, answer)
    /\ batch' = IF pc'[a] = "copy" THEN batch ELSE BatchAfterItem(batch, result'.out)
    /\ UNCHANGED << probe, server, cli >>

\* one iteration of the loop, from shutil.copy2 to its end
BatchItemCopy(a, outcome) ==
    /\ batch.status = "running"
    /\ batch.by = a
    /\ AddCopy(a, outcome)
    /\ batch' = BatchAfterItem(batch, result'.out)
    /\ UNCHANGED << probe, server, cli >>

\* the end of add_multiple_workflows: the summary is returned
BatchReturn(a) ==
    /\ batch.status = "running"
    /\ batch.by = a
    /\ batch.todo = << >>
    /\ pc[a] = "idle"
    /\ batch' = [batch EXCEPT !.status = "returned", !.success = (batch.failed = 0)]
    /\ UNCHANGED << corpus, analyzer, pc, call, result, probe, server, cli >>

DoBatchStart ==
    \E files \in BatchLists : \E ac \in Booleans : \E dr \in Booleans :
        BatchStart("A", files, ac, dr)

DoBatchItemBegin == \E ans \in Answers : BatchItemBegin("A", ans)

DoBatchItemCopy == \E o \in CopyOutcomes : BatchItemCopy("A", o)

DoBatchReturn == BatchReturn("A")

BatchNext == DoBatchStart \/ DoBatchItemBegin \/ DoBatchItemCopy \/ DoBatchReturn

\* one adder that is given batches
SpecBatch == Init /\ [][BatchNext]_vars

(***************************************************************************)
(* shared_utils.get_clean_service_name                                     *)
(***************************************************************************)
\* SERVICE_MAPPING of shared_utils: every key in lower case
SERVICE_MAPPING ==
    [ webhook |-> "Webhook", httprequest |-> "HTTP", cron |-> "Cron",
      gmail |-> "Gmail", slack |-> "Slack", googlesheets |-> "GoogleSheets",
      airtable |-> "Airtable", notion |-> "Notion", telegram |-> "Telegram",
      discord |-> "Discord", twitter |-> "Twitter", github |-> "GitHub",
      hubspot |-> "HubSpot", salesforce |-> "Salesforce", stripe |-> "Stripe",
      shopify |-> "Shopify", trello |-> "Trello", asana |-> "Asana",
      clickup |-> "ClickUp", calendly |-> "Calendly", zoom |-> "Zoom",
      mattermost |-> "Mattermost", microsoftteams |-> "Teams",
      googlecalendar |-> "GoogleCalendar", googledrive |-> "GoogleDrive",
      dropbox |-> "Dropbox", onedrive |-> "OneDrive", aws |-> "AWS",
      azure |-> "Azure", googlecloud |-> "GCP", postgresql |-> "PostgreSQL",
      mysql |-> "MySQL", mongodb |-> "MongoDB", redis |-> "Redis",
      elasticsearch |-> "Elasticsearch", typeform |-> "Typeform",
      mailchimp |-> "Mailchimp", sendgrid |-> "SendGrid", twilio |-> "Twilio",
      openai |-> "OpenAI", anthropic |-> "Anthropic", replicate |-> "Replicate" ]

UTILITY_NODES ==
    { "Set", "Function", "If", "Switch", "Merge", "StickyNote",
      "NoOp", "Code", "Execute", "Split", "Wait", "Stop" }

\* Python's None
None == "None"

\* get_clean_service_name(raw_service_name): the clean name, or None
get_clean_service_name(raw_service_name) ==
    LET normalized_raw_service == StrLower(raw_service_name)
        clean_service == IF normalized_raw_service \in DOMAIN SERVICE_MAPPING
                         THEN SERVICE_MAPPING[normalized_raw_service]
                         ELSE StrTitle(raw_service_name)
    IN  IF \/ clean_service \in UTILITY_NODES
           \/ raw_service_name \in UTILITY_NODES
           \/ StrTitle(raw_service_name) \in UTILITY_NODES
        THEN None
        ELSE clean_service

(***************************************************************************)
(* The helper functions called on their own, one call in a behaviour       *)
(***************************************************************************)
\* the node kinds of the mapping table, spelled as n8n spells them
MappedKinds == DOMAIN service_mapping

\* the utility kinds, spelled as n8n spells them
UtilityKinds ==
    { "set", "function", "if", "switch", "merge", "stickyNote",
      "noOp", "code", "execute", "split", "wait", "stop" }

\* a node type of the n8n base package, as a trigger node or as a plain one
KindSuffixes == {"", "Trigger"}

\* the node kinds that are combined into longer lists
ListKinds == {"webhook", "cron", "gmailTrigger", "gmail", "set", "stickyNote", "slack"}

MaxNodes == 3

\* the lists of node types _analyze_nodes is applied to
NodeTypeLists ==
    { << NodePrefix \o k \o x >> : k \in MappedKinds \cup UtilityKinds, x \in KindSuffixes }
    \cup UNION { [1..n -> { NodePrefix \o k : k \in ListKinds }] : n \in 0..MaxNodes }

\* the node objects with the given types
NodesOfTypes(node_types) == JList([ i \in 1..Len(node_types) |-> Node(node_types[i]) ])

\* self._analyze_nodes(nodes)
CallAnalyzeNodes(node_types) ==
    /\ probe = NoProbe
    /\ probe' = [ fn |-> "_analyze_nodes", node_types |-> node_types,
                  out |-> AnalyzeNodes(NodesOfTypes(node_types)) ]
    /\ UNCHANGED << corpus, analyzer, pc, call, result, batch, server, cli >>

\* the raw service names get_clean_service_name is applied to
RawServiceNames ==
    MappedKinds \cup UtilityKinds \cup UTILITY_NODES \cup { "customThing", "SET" }

\* get_clean_service_name(raw_service_name)
CallCleanServiceName(raw_service_name) ==
    /\ probe = NoProbe
    /\ probe' = [ fn |-> "get_clean_service_name", raw_service_name |-> raw_service_name,
                  out |-> get_clean_service_name(raw_service_name) ]
    /\ UNCHANGED << corpus, analyzer, pc, call, result, batch, server, cli >>

\* the numbers _generate_filename is called with: self.next_number
FilenameNumbers == InitialNextNumbers \cup {5}

\* service names: canonical ones, and title-cased tokens of unmapped node types
ServiceNames == { "GitHub", "Discord", "Gmail", "Slack", "Foo.Bar", "Café", "" }

MaxServices == 4

ServiceSets == { S \in SUBSET ServiceNames : Cardinality(S) <= MaxServices }

PurposeTexts == { "Notify", "Automation", "Re/port $1 & #2 @ 50%" }

TriggerTypes == { "Webhook", "Scheduled", "Triggered", "Manual" }

\* self._generate_filename(services, purpose, trigger_type)
CallGenerateFilename(next_number, services, purpose, trigger_type) ==
    /\ probe = NoProbe
    /\ probe' = [ fn |-> "_generate_filename", next_number |-> next_number,
                  services |-> services, purpose |-> purpose, trigger_type |-> trigger_type,
                  out |-> GenerateFilename(next_number, services, purpose, trigger_type) ]
    /\ UNCHANGED << corpus, analyzer, pc, call, result, batch, server, cli >>

\* display names of workflows
WorkflowNames ==
    { "Create and Update", "Sync New Items", "Email Backup", "Get Status",
      "Manage Bot", "Transform Archive", "Health Check", "Refresh Mirror",
      "Pull Tracker", "Organize Files", "Parse CSV", "Daily Digest",
      "Data Pipeline", "Café", "" }

PurposeNodeKinds ==
    { "n8n-nodes-base.gmail", "n8n-nodes-base.emailSend", "custom.createItem",
      "n8n-nodes-base.editImage", "n8n-nodes-base.set" }

MaxPurposeNodes == 2

PurposeNodeLists == UNION { [1..n -> PurposeNodeKinds] : n \in 0..MaxPurposeNodes }

\* self._determine_purpose(name, nodes)
CallDeterminePurpose(name, node_types) ==
    /\ probe = NoProbe
    /\ probe' = [ fn |-> "_determine_purpose", name |-> name, node_types |-> node_types,
                  out |-> DeterminePurpose(JStr(name), NodesOfTypes(node_types)) ]
    /\ UNCHANGED << corpus, analyzer, pc, call, result, batch, server, cli >>

\* the fixture complex_workflow of the tests
ComplexWorkflow ==
    JObj([ name |-> JStr("GitHub Issues to Discord and Email Notification System"),
           nodes |-> NodesOfTypes(<< "n8n-nodes-base.webhook", "n8n-nodes-base.github",
                                     "n8n-nodes-base.discord", "n8n-nodes-base.gmail",
                                     "n8n-nodes-base.function" >>),
           connections |-> EmptyObj ])

MaxNodeCount == 17

\* a workflow of n utility nodes
SizedWorkflow(n) ==
    JObj([ name |-> JStr("Plain"),
           nodes |-> NodesOfTypes([ i \in 1..n |-> "n8n-nodes-base.set" ]),
           connections |-> EmptyObj ])

\* a workflow object without 'nodes'
NoNodesWorkflow == JObj([ name |-> JStr("Plain"), connections |-> EmptyObj ])

\* the documents analyze_workflow_file is applied to
Documents ==
    { ComplexWorkflow, NoNodesWorkflow } \cup { SizedWorkflow(n) : n \in 0..MaxNodeCount }

\* analyzer.analyze_workflow_file(path) on a file that holds the document
CallAnalyzeFile(next_number, data) ==
    /\ probe = NoProbe
    /\ probe' = [ fn |-> "analyze_workflow_file", next_number |-> next_number,
                  data |-> data,
                  out |-> AnalyzeFile(next_number, "upload.json", Doc(data)) ]
    /\ UNCHANGED << corpus, analyzer, pc, call, result, batch, server, cli >>

DoAnalyzeNodes == \E q \in NodeTypeLists : CallAnalyzeNodes(q)

DoAnalyzeFile == \E n \in FilenameNumbers : \E d \in Documents : CallAnalyzeFile(n, d)

DoDeterminePurpose ==
    \E name \in WorkflowNames : \E q \in PurposeNodeLists : CallDeterminePurpose(name, q)

DoGenerateFilename ==
    \E n \in FilenameNumbers : \E S \in ServiceSets :
        \E p \in PurposeTexts : \E t \in TriggerTypes : CallGenerateFilename(n, S, p, t)

DoCleanServiceName == \E s \in RawServiceNames : CallCleanServiceName(s)

HelperNext ==
    DoAnalyzeNodes \/ DoCleanServiceName \/ DoGenerateFilename \/ DoDeterminePurpose \/ DoAnalyzeFile

\* one call of a helper function on its own
SpecHelpers == Init /\ [][HelperNext]_vars

(***************************************************************************)
(* api_server: /api/reindex, /api/add-workflow and their background tasks  *)
(*                                                                         *)
(* The request handlers are coroutines of one event loop: a handler runs   *)
(* alone from one await to the next.  A background task is a plain         *)
(* function, which the server runs in a worker thread after the response:  *)
(* the tasks run beside each other and beside the handlers.  A block       *)
(* 'with reindex_lock' is one step: nothing else that takes the lock runs  *)
(* inside it.                                                              *)
(***************************************************************************)
MaxTasks == 3

Task(kind, at) == [kind |-> kind, pc |-> at, ended |-> "no"]

\* background_tasks.add_task(f)
AddTask(s, kind, at) == [s EXCEPT !.tasks = Append(@, Task(kind, at))]

Respond(s, response) == [s EXCEPT !.response = response, !.handler = "idle"]

\* reindex_workflows up to the lock: the check of the flag without the lock
ReindexQuickCheck(s) ==
    IF s.is_reindexing_flag THEN Respond(s, "409")
    ELSE [s EXCEPT !.handler = "reindex_workflows"]

\* reindex_workflows under the lock without the second look at the flag
ReindexLockedUnchecked(s) ==
    Respond(AddTask([s EXCEPT !.is_reindexing_flag = TRUE], "run_indexing_task", "try"),
            "started")

\* reindex_workflows from the lock on: the second check, the flag, the task
ReindexLocked(s) ==
    IF s.is_reindexing_flag THEN Respond(s, "409")
    ELSE Respond(AddTask([s EXCEPT !.is_reindexing_flag = TRUE], "run_indexing_task", "try"),
                 "started")

\* POST /api/reindex arrives
ReindexRequest ==
    /\ server.handler = "idle"
    /\ Len(server.tasks) < MaxTasks
    /\ server' = ReindexQuickCheck(server)
    /\ UNCHANGED << corpus, analyzer, pc, call, result, batch, probe, cli >>

ReindexContinue ==
    /\ server.handler = "reindex_workflows"
    /\ server' = ReindexLocked(server)
    /\ UNCHANGED << corpus, analyzer, pc, call, result, batch, probe, cli >>

\* the endpoint after adder.add_workflow returned r: on success the new file
\* awaits an index run and reindex_db_task is scheduled
AfterAdd(s, r, outcome) ==
    IF Proceeds(r) /\ outcome = "copied"
    THEN Respond(AddTask([s EXCEPT !.unindexed = @ \cup {r.val.target_file}],
                         "reindex_db_task", "scheduled"), "added")
    ELSE Respond(s, "failed")

\* POST /api/add-workflow with an upload that passed the endpoint's checks:
\* a new AutoWorkflowAdder, add_workflow on the temporary file, the task
AddRequest(path, outcome) ==
    /\ server.handler = "idle"
    /\ Len(server.tasks) < MaxTasks
    /\ Cardinality(AddedFiles) < MaxAdded
    /\ LET r == AddWorkflowUntilCopy(NewAnalyzer(TRUE, DOMAIN corpus).next_number,
                                     path, TRUE, FALSE, "")
       IN  /\ corpus' = IF Proceeds(r)
                        THEN CopyFile(corpus, path, r.val.target_file, outcome)
                        ELSE corpus
           /\ server' = AfterAdd(server, r, outcome)
    /\ UNCHANGED << analyzer, pc, call, result, batch, probe, cli >>

\* the i-th task moves to the position at, with the flag set to flag
TaskStep(s, i, at, flag) ==
    [s EXCEPT !.tasks[i].pc = at, !.is_reindexing_flag = flag]

\* reindex_db_task: the check of the flag without the lock
TaskQuickCheck(i) ==
    /\ server.tasks[i].pc = "scheduled"
    /\ server' = TaskStep(server, i,
                          IF server.is_reindexing_flag THEN "skipped" ELSE "lock",
                          server.is_reindexing_flag)
    /\ UNCHANGED << corpus, analyzer, pc, call, result, batch, probe, cli >>

\* reindex_db_task: under the lock, the second check and the flag
TaskLocked(i) ==
    /\ server.tasks[i].pc = "lock"
    /\ server' = TaskStep(server, i,
                          IF server.is_reindexing_flag THEN "skipped" ELSE "try", TRUE)
    /\ UNCHANGED << corpus, analyzer, pc, call, result, batch, probe, cli >>

\* db.index_all_workflows begins: the run sees the files written so far
IndexStart(i) ==
    /\ server.tasks[i].pc = "try"
    /\ server' = [ TaskStep(server, i, "indexing", server.is_reindexing_flag)
                     EXCEPT !.unindexed = {} ]
    /\ UNCHANGED << corpus, analyzer, pc, call, result, batch, probe, cli >>

IndexEndings == {"returned", "raised"}

\* db.index_all_workflows returns or raises; the except clause only logs
IndexEnd(i, ending) ==
    /\ server.tasks[i].pc = "indexing"
    /\ server' = [ TaskStep(server, i, "finally", server.is_reindexing_flag)
                     EXCEPT !.tasks[i].ended = ending ]
    /\ UNCHANGED << corpus, analyzer, pc, call, result, batch, probe, cli >>

\* the flag if it were reset at the end of the try block, not in finally
FlagAfterTry(ended) == ended = "raised"

\* the flag after the finally clause
FlagAfterFinally(ended) == FALSE

\* finally: with reindex_lock: is_reindexing_flag = False
TaskFinally(i) ==
    /\ server.tasks[i].pc = "finally"
    /\ server' = TaskStep(server, i, "done", FlagAfterFinally(server.tasks[i].ended))
    /\ UNCHANGED << corpus, analyzer, pc, call, result, batch, probe, cli >>

\* the file uploaded to /api/add-workflow
Uploads == {"gmail.json"}

DoAddRequest == \E p \in Uploads : \E o \in CopyOutcomes : AddRequest(p, o)

\* the steps of the background tasks
TaskNext ==
    \E i \in 1..Len(server.tasks) :
        \/ TaskQuickCheck(i)
        \/ TaskLocked(i)
        \/ IndexStart(i)
        \/ \E e \in IndexEndings : IndexEnd(i, e)
        \/ TaskFinally(i)

ServerNext == ReindexRequest \/ ReindexContinue \/ DoAddRequest \/ TaskNext

\* the server: a handler that holds the event loop goes on, and every
\* background task is run to its end
SpecServer ==
    Init /\ [][ServerNext]_vars /\ WF_vars(ReindexContinue) /\ WF_vars(TaskNext)

(***************************************************************************)
(* auto_add_workflow.main on explicit file arguments                       *)
(***************************************************************************)
\* the file arguments given to main
CliLists == BatchLists

\* a pre-validation that lets every list through
ValidateNoFilesForCli(file_paths) == TRUE

\* _validate_multiple_workflow_files_for_cli(args.files, AutoWorkflowAdder)
ValidateMultipleWorkflowFilesForCli(file_paths) ==
    \A i \in 1..Len(file_paths) : ValidationTable[file_paths[i]].success

\* exit(main()): main returned code, or ended by an uncaught exception,
\* which ends the interpreter with status 1
Exited(c, code, raised) ==
    [c EXCEPT !.status = "exited", !.exit = code, !.raised = raised]

\* main once add_workflow or add_multiple_workflows has returned or raised
ExitAfter(c, raised, success) ==
    IF raised THEN Exited(c, 1, TRUE)
    ELSE IF success THEN Exited(c, 0, FALSE)
    ELSE Exited(c, 1, FALSE)

\* main from the construction of the adder to the choice between
\* add_workflow and add_multiple_workflows
MainStart(files, auto_confirm, dry_run) ==
    /\ cli.status = "idle"
    /\ batch.status # "running"
    /\ pc["A"] = "idle"
    /\ analyzer' = [analyzer EXCEPT !["A"] = NewAnalyzer(TRUE, DOMAIN corpus)]
    /\ LET c == [ status |-> "started", files |-> files, auto_confirm |-> auto_confirm,
                  dry_run |-> dry_run, exit |-> 0, raised |-> FALSE ]
       IN  cli' = IF files = << >> THEN Exited(c, 1, FALSE)
                  ELSE IF ~ValidateMultipleWorkflowFilesForCli(files) THEN Exited(c, 1, FALSE)
                  ELSE IF Len(files) = 1 THEN [c EXCEPT !.status = "add_workflow"]
                  ELSE [c EXCEPT !.status = "add_multiple_workflows"]
    /\ UNCHANGED << corpus, pc, call, result, batch, probe, server >>

\* main with one file: add_workflow up to the copy, or to its return
MainAddBegin(answer) ==
    /\ cli.status = "add_workflow"
    /\ AddBegin("A", cli.files[1], cli.auto_confirm, cli.dry_run, answer)
    /\ cli' = IF pc'["A"] = "copy" THEN cli
              ELSE ExitAfter(cli, result'.out.raised,
                             ~result'.out.raised /\ result'.out.val.success)
    /\ UNCHANGED << batch, probe, server >>

\* main with one file: the copy, the commit and the exit code
MainAddCopy(outcome) ==
    /\ cli.status = "add_workflow"
    /\ AddCopy("A", outcome)
    /\ cli' = ExitAfter(cli, FALSE, result'.out.val.success)
    /\ UNCHANGED << batch, probe, server >>

\* main with several files: the call of add_multiple_workflows
MainBatchStart ==
    /\ cli.status = "add_multiple_workflows"
    /\ batch.status # "running"
    /\ batch' = RunningBatch("A", cli.files, cli.auto_confirm, cli.dry_run)
    /\ cli' = [cli EXCEPT !.status = "in_batch"]
    /\ UNCHANGED << corpus, analyzer, pc, call, result, probe, server >>

\* main with several files: add_multiple_workflows has returned or raised
MainBatchEnd ==
    /\ cli.status = "in_batch"
    /\ batch.status \in {"returned", "raised"}
    /\ cli' = ExitAfter(cli, batch.status = "raised", batch.success)
    /\ UNCHANGED << corpus, analyzer, pc, call, result, batch, probe, server >>

DoMainStart ==
    \E files \in CliLists : \E ac \in Booleans : \E dr \in Booleans : MainStart(files, ac, dr)

DoMainAddBegin == \E ans \in Answers : MainAddBegin(ans)

DoMainAddCopy == \E o \in CopyOutcomes : MainAddCopy(o)

CliNext ==
    \/ DoMainStart
    \/ DoMainAddBegin
    \/ DoMainAddCopy
    \/ MainBatchStart
    \/ DoBatchItemBegin
    \/ DoBatchItemCopy
    \/ DoBatchReturn
    \/ MainBatchEnd

\* one run of main (one process) on the directory
SpecCli == Init /\ [][CliNext]_vars

(***************************************************************************)
(* Properties                                                              *)
(***************************************************************************)
\* the last operation was add_workflow by a and returned success with the action
Added(a, action) ==
    /\ result.op = "add"
    /\ result.by = a
    /\ ~result.out.raised
    /\ result.out.val.success
    /\ result.out.val.action = action

\* the last operation was add_workflow and returned a failure whose error is
LastAddFailed(error) ==
    /\ result.op = "add"
    /\ ~result.out.raised
    /\ ~result.out.val.success
    /\ result.out.val.error = error

RegistryInvariant(an) ==
    /\ an.existing_numbers = {} => an.next_number = 1
    /\ an.existing_numbers # {} =>
          /\ an.next_number - 1 \in an.existing_numbers
          /\ \A n \in an.existing_numbers : n < an.next_number
    /\ an.next_number \notin an.existing_numbers

\* C1: after construction and at every point of every add_workflow call
\* (successful, failed, declined or dry run), next_number is
\* max(existing_numbers) + 1, or 1 when existing_numbers is empty, and is
\* never a member of existing_numbers.
C1_RegistryInvariant == \A a \in Adders : RegistryInvariant(analyzer[a])

\* an adder built on the numbers {1, 2, 5} has added a file as number 6
C1_Witness ==
    /\ Added("A", "added")
    /\ result.out.val.number = 6
    /\ analyzer["A"].existing_numbers = {1, 2, 5, 6}
    /\ analyzer["A"].next_number = 7

\* the sequence number a corpus file carries: the 4 digits the scan reads
HasPrefix(f) == MatchesNumberPrefix(f)

PrefixOf(f) == SubSeq(f, 1, FilenameNumberWidth)

\* C2: with one adder, starting from a directory whose NNNN prefixes are
\* pairwise distinct, no two files of the corpus directory ever carry the
\* same sequence-number prefix.
C2_UniquePrefixes ==
    \A f \in DOMAIN corpus : \A g \in DOMAIN corpus :
        (f # g /\ HasPrefix(f) /\ HasPrefix(g)) => PrefixOf(f) # PrefixOf(g)

\* C3: two ingestions on the same directory are never both between their
\* collision check and their copy with the same sequence number (the whole
\* sequence runs under mutual exclusion).
C3_MutualExclusion ==
    \A a \in Adders : \A b \in Adders :
        (a # b /\ pc[a] = "copy" /\ pc[b] = "copy") =>
            /\ call[a].number # call[b].number
            /\ call[a].target # call[b].target

\* the last operation was a successful analysis
AnalysedOk ==
    /\ result.op = "analyze"
    /\ ~result.out.raised
    /\ result.out.val.success

\* a's registry is what a scan of the directory as it is now gives
FreshlyScanned(a) == analyzer[a] = NewAnalyzer(TRUE, DOMAIN corpus)

\* the analysis that precedes was made by a itself, or both registries match
\* the directory (a freshly constructed analyzer, a freshly constructed adder)
SameCorpusState(a) ==
    \/ result.by = a
    \/ result.by \in Adders /\ FreshlyScanned(result.by) /\ FreshlyScanned(a)

\* this step is analyze_workflow_file
AnalyzeStep == result'.op = "analyze" /\ pc' = pc

\* this step is a's add_workflow going on to the copy
ProceedStep(a) == pc[a] = "idle" /\ pc'[a] = "copy"

\* this step is the copy, the commit and the return of a's add_workflow
CopyStep(a) == pc[a] = "copy" /\ pc'[a] = "idle"

\* this step is a's add_workflow returning before the copy
ReturnStep(a) ==
    /\ pc[a] = "idle"
    /\ pc' = pc
    /\ result'.op = "add"
    /\ result'.by = a

CopySucceeded == result'.out.val.success

PeekStep(a) ==
    /\ AnalyzeStep => analyzer' = analyzer /\ corpus' = corpus
    /\ (AnalyzeStep /\ AnalysedOk /\ result'.by = a /\ result'.src = result.src
          /\ SameCorpusState(a)) =>
          /\ ~result'.out.raised
          /\ result'.out.val.success
          /\ result'.out.val.suggested_filename = result.out.val.suggested_filename
          /\ result'.out.val.next_number = result.out.val.next_number
    /\ (ProceedStep(a) /\ AnalysedOk /\ call'[a].src = result.src
          /\ SameCorpusState(a)) =>
          /\ call'[a].target = result.out.val.suggested_filename
          /\ call'[a].number = result.out.val.next_number
    /\ (CopyStep(a) /\ CopySucceeded) =>
          /\ result'.out.val.target_file = call[a].target
          /\ call[a].target \in DOMAIN corpus'

\* C4: analyze_workflow_file changes neither the registry nor the directory;
\* analysing the same document again with no operation in between gives the
\* same suggested_filename and next_number; and a non-dry-run add_workflow of
\* that document on the same corpus state, by the same adder or by a freshly
\* constructed one, writes exactly the file name the analysis suggested.
C4_IdempotentPeek == [][\A a \in Adders : PeekStep(a)]_vars

\* a freshly constructed adder goes on to copy the document under the name
\* that the other, freshly constructed analyzer has just suggested
C4_Witness ==
    /\ AnalysedOk
    /\ result.by = "B"
    /\ pc["A"] = "copy"
    /\ call["A"].src = result.src
    /\ FreshlyScanned("A")
    /\ FreshlyScanned("B")
    /\ AddedFiles # {}
    /\ call["A"].target = result.out.val.suggested_filename

CommitStep(a) ==
    /\ ProceedStep(a) =>
          /\ analyzer'[a] = analyzer[a]
          /\ call'[a].number = analyzer[a].next_number
    /\ CopyStep(a) =>
          /\ call[a].number \notin analyzer[a].existing_numbers
          /\ analyzer[a].existing_numbers = {1, 2, 5} => call[a].number = 6
          /\ analyzer[a].existing_numbers = {1, 2, 5, 6} => call[a].number = 7
          /\ IF CopySucceeded
             THEN /\ call[a].target \in DOMAIN corpus'
                  /\ corpus'[call[a].target].complete
                  /\ result'.out.val.number = call[a].number
                  /\ analyzer'[a].existing_numbers =
                        analyzer[a].existing_numbers \cup {call[a].number}
                  /\ analyzer'[a].next_number = call[a].number + 1
                  /\ analyzer'[a].next_number > analyzer[a].next_number
             ELSE analyzer'[a] = analyzer[a]

\* C5: a non-dry-run add_workflow that uses number n has not registered n
\* before the copy, registers it only when the copy has succeeded, and then
\* leaves next_number = n + 1, greater than before; on the used numbers
\* {1, 2, 5} the first ingestion gets 6 and the next one 7.
C5_CommitOrdering == [][\A a \in Adders : CommitStep(a)]_vars

\* the second ingestion on the used numbers {1, 2, 5} has been committed as 7
C5_Witness ==
    /\ Added("A", "added")
    /\ result.out.val.number = 7
    /\ analyzer["A"].existing_numbers = {1, 2, 5, 6, 7}
    /\ analyzer["A"].next_number = 8

\* validation and analysis of path succeed on a's registry
Synthesizes(a, path) ==
    /\ ValidationTable[path].success
    /\ ~AnalysisTable[<< analyzer[a].next_number, path >>].raised
    /\ AnalysisTable[<< analyzer[a].next_number, path >>].val.success

\* the target file name add_workflow synthesizes for path on a's registry
TargetOf(a, path) ==
    AnalysisTable[<< analyzer[a].next_number, path >>].val.suggested_filename

AlreadyExists == Return(Failure("already exists in repository"))

CollisionStep(a) ==
    /\ ProceedStep(a) => call'[a].target \notin DOMAIN corpus
    /\ (ReturnStep(a) /\ Synthesizes(a, result'.src)
          /\ TargetOf(a, result'.src) \in DOMAIN corpus) =>
          /\ result'.out = AlreadyExists
          /\ corpus' = corpus
          /\ analyzer' = analyzer

\* C6: whenever the synthesized target name already exists in the directory,
\* add_workflow returns the 'already exists' failure without going on to the
\* copy; the directory (its files and their content) and the registry are
\* unchanged by that call.
C6_CollisionRejection == [][\A a \in Adders : CollisionStep(a)]_vars

\* an add_workflow was refused because its target name is in the directory
C6_Witness ==
    /\ LastAddFailed("already exists in repository")
    /\ result.by = "A"
    /\ Synthesizes("A", result.src)
    /\ TargetOf("A", result.src) \in DOMAIN corpus

CopyFailureStep(a) ==
    (CopyStep(a) /\ ~CopySucceeded) =>
        /\ analyzer' = analyzer
        /\ corpus' = corpus

\* C7: when the copy step of add_workflow fails, the call returns
\* success=false, the registry is as before the call and the directory holds
\* exactly the files it held before the call (no partly written target).
C7_CopyFailureNoTrace == [][\A a \in Adders : CopyFailureStep(a)]_vars

\* this step is a's add_workflow with dry_run, on a source that passes
\* validation and analysis
DryRunStep(a) ==
    /\ ReturnStep(a)
    /\ result'.dry_run
    /\ Synthesizes(a, result'.src)

\* the success result of a dry run of path on a's registry
DryRunReport(a, path) ==
    Return([ success |-> TRUE, action |-> "dry_run", source_file |-> path,
             target_file |-> TargetOf(a, path),
             number |-> analyzer[a].next_number ])

\* the last operation and this one are successful dry runs by a
RepeatedDryRun(a) ==
    /\ Added(a, "dry_run")
    /\ ReturnStep(a)
    /\ ~result'.out.raised
    /\ result'.out.val.success
    /\ result'.out.val.action = "dry_run"

DryRunUnchecked(a) ==
    DryRunStep(a) =>
        /\ result'.out = DryRunReport(a, result'.src)
        /\ corpus' = corpus
        /\ analyzer' = analyzer

\* C8 as stated: a dry run of a source that passes validation and analysis
\* makes no collision check and returns success=true, action='dry_run' and
\* the file name that would be used, leaving directory and registry as they
\* are.
C8_DryRunAsStated == [][\A a \in Adders : DryRunUnchecked(a)]_vars

DryRunChecked(a) ==
    /\ DryRunStep(a) =>
          /\ result'.out = IF TargetOf(a, result'.src) \in DOMAIN corpus
                           THEN AlreadyExists
                           ELSE DryRunReport(a, result'.src)
          /\ corpus' = corpus
          /\ analyzer' = analyzer
    /\ RepeatedDryRun(a) => result'.out.val.number = result.out.val.number

\* C8: a dry run of a source that passes validation and analysis is never
\* asked to confirm, makes the collision check, and returns the 'already
\* exists' failure when the target name is in the directory and otherwise
\* success=true, action='dry_run' and the file name that would be used; it
\* changes neither the directory nor the registry, so a dry run that follows
\* a dry run reports the same sequence number.
C8_DryRun == [][\A a \in Adders : DryRunChecked(a)]_vars

\* a dry run after an ingestion reports the name it would use, and no file
\* of that name has appeared
C8_Witness ==
    /\ Added("A", "dry_run")
    /\ result.dry_run
    /\ AddedFiles # {}
    /\ result.out.val.number = analyzer["A"].next_number
    /\ result.out.val.target_file = TargetOf("A", result.src)
    /\ result.out.val.target_file \notin DOMAIN corpus

\* the source is a file ending in .json that holds a JSON object with the
\* keys nodes and connections
IsWorkflowObject(path) ==
    /\ SourceFiles[path].exists
    /\ EndsWith(path, ".json")
    /\ SourceFiles[path].ok
    /\ SourceFiles[path].json.t = "obj"
    /\ {"nodes", "connections"} \subseteq DOMAIN SourceFiles[path].json.v

\* C9: add_workflow goes past validation only for a .json file that holds a
\* JSON object with both keys; for every other source it returns
\* success=false with an error.
C9_ValidationGate ==
    /\ \A a \in Adders : pc[a] = "copy" => IsWorkflowObject(call[a].src)
    /\ (result.op = "add" /\ ~IsWorkflowObject(result.src)) =>
          /\ ~result.out.raised
          /\ ~result.out.val.success

\* C10: analyze_workflow_file and add_workflow never raise: whatever the
\* input, the operation returns a structured result.
C10_NoRawFaults == result.op \in {"analyze", "add"} => ~result.out.raised

\* the i-th result of the batch belongs to the i-th source
ResultInOrder(i) ==
    batch.results[i].success => batch.results[i].source_file = batch.files[i]

\* C11: add_multiple_workflows never ends by an exception of one of its
\* items; when it returns, it has one result per source, in the order of the
\* sources, total_files = len(sources) = successful + failed, and success is
\* true exactly when failed = 0.
C11_BatchIsolation ==
    /\ batch.status # "raised"
    /\ batch.status = "returned" =>
          /\ batch.todo = << >>
          /\ Len(batch.results) = Len(batch.files)
          /\ \A i \in 1..Len(batch.results) : ResultInOrder(i)
          /\ batch.total_files = Len(batch.files)
          /\ batch.total_files = batch.successful + batch.failed
          /\ batch.success <=> (batch.failed = 0)

\* the probe holds a call of _analyze_nodes that returned
AnalyzedNodes == probe.fn = "_analyze_nodes" /\ ~probe.out.raised

\* the trigger categories, from the highest priority to the lowest
TriggerPriority == << "Webhook", "Scheduled", "Triggered", "Manual" >>

\* the category a node of the given type signals by itself
TriggerSignal(node_type) == NodeTrigger("Manual", node_type)

\* the highest-priority category signalled by a node of the list
HighestSignal(node_types) ==
    LET signals == { TriggerSignal(node_types[i]) : i \in 1..Len(node_types) } \cup {"Manual"}
        first == CHOOSE i \in 1..Len(TriggerPriority) :
                    /\ TriggerPriority[i] \in signals
                    /\ \A j \in 1..(i - 1) : TriggerPriority[j] \notin signals
    IN  TriggerPriority[first]

\* C12: the trigger_type returned by _analyze_nodes is the highest-priority
\* category (Webhook > Scheduled > Triggered > Manual) signalled by any node
\* of the list, whatever the order of the nodes.
C12_TriggerPriority ==
    AnalyzedNodes => probe.out.val.trigger_type = HighestSignal(probe.node_types)

\* the probe holds _analyze_nodes of the single node of kind k with suffix x
AnalyzedKind(k, x) == AnalyzedNodes /\ probe.node_types = << NodePrefix \o k \o x >>

\* C13: for every key of the mapping table in its n8n spelling, with or
\* without the 'Trigger' suffix, _analyze_nodes of a node of that type returns
\* exactly the table's canonical name as service set, and that name is what
\* shared_utils.get_clean_service_name returns for the key.
C13_ServiceMapping ==
    \A k \in MappedKinds : \A x \in KindSuffixes :
        AnalyzedKind(k, x) =>
            /\ probe.out.val.services = { service_mapping[k] }
            /\ probe.out.val.services = { get_clean_service_name(k) }

\* the types of the utility nodes
UtilityTypes == { NodePrefix \o k : k \in UtilityKinds }

\* the types of a list, as a set
TypesOf(node_types) == { node_types[i] : i \in 1..Len(node_types) }

\* the services of the nodes of a list that are not utility nodes
ServicesOfOthers(node_types) ==
    UNION { NodeService(t) : t \in TypesOf(node_types) \ UtilityTypes }

\* C14: a utility node never contributes a service: the service set of a
\* list is that of its other nodes; a list of utility nodes only has the
\* empty service set, and utility nodes with gmail nodes give exactly {Gmail}.
C14_ServiceExclusion ==
    AnalyzedNodes =>
        LET types == TypesOf(probe.node_types)
            services == probe.out.val.services
        IN  /\ services = ServicesOfOthers(probe.node_types)
            /\ types \subseteq UtilityTypes => services = {}
            /\ (/\ types \subseteq UtilityTypes \cup { NodePrefix \o "gmail" }
                /\ NodePrefix \o "gmail" \in types) => services = {"Gmail"}

\* the probe holds a call of _generate_filename
GeneratedFilename == probe.fn = "_generate_filename"

\* the services that have fewer than two services before them
FirstTwo(services) ==
    { s \in services : Cardinality({ t \in services : StrLess(t, s) }) < MaxServicesInName }

\* a set of strings in ascending order
Ascending(S) ==
    CHOOSE q \in [1..Cardinality(S) -> S] :
        \A i \in 1..Cardinality(S) : \A j \in 1..Cardinality(S) : i < j => StrLess(q[i], q[j])

\* the tokens of the name as the claim lists them
NameTokens(next_number, services, purpose, trigger_type) ==
    << ZeroPad4(next_number) >>
    \o (IF services = {} THEN << "Manual" >> ELSE Ascending(FirstTwo(services)))
    \o << purpose >>
    \o (IF trigger_type \in {"Manual", "Triggered"} THEN << >> ELSE << trigger_type >>)

JoinedName ==
    StrJoin(NameTokens(probe.next_number, probe.services, probe.purpose, probe.trigger_type), "_")

\* a token the clean-up leaves as it is, also inside a joined name
PlainToken(s) ==
    /\ Len(s) > 0
    /\ \A i \in 1..Len(s) : IsAlpha(Chr(s, i)) \/ IsDigit(Chr(s, i)) \/ Chr(s, i) = "-"

PlainTokens ==
    /\ \A s \in probe.services : PlainToken(s)
    /\ PlainToken(probe.purpose)

IsExampleCall ==
    /\ GeneratedFilename
    /\ probe.next_number = 5
    /\ probe.services = {"GitHub", "Discord", "Gmail", "Slack"}
    /\ probe.purpose = "Notify"
    /\ probe.trigger_type = "Webhook"

\* C15 as stated: the generated filename is the '_'-join of the tokens
\* followed by '.json', for every number, service set, purpose and trigger.
C15_FilenameAsStated == GeneratedFilename => probe.out = JoinedName \o ".json"

\* C15: the generated filename is the '_'-join of the tokens [number padded to
\* 4 digits] + [first two services in order, or 'Manual'] + [purpose] +
\* [trigger unless Manual or Triggered], cleaned up (characters outside
\* [\w-] removed, runs of '_' collapsed, '_' stripped at both ends), followed
\* by '.json'; it is the plain join when every service and the purpose are
\* non-empty and made of letters, digits and '-' only.
C15_FilenameSynthesis ==
    /\ GeneratedFilename =>
          /\ probe.out = CleanFilename(JoinedName) \o ".json"
          /\ PlainTokens => probe.out = JoinedName \o ".json"
    /\ IsExampleCall => probe.out = "0005_Discord_GitHub_Notify_Webhook.json"

\* the example of the claim has been generated
C15_Witness ==
    /\ IsExampleCall
    /\ PlainTokens
    /\ probe.out = "0005_Discord_GitHub_Notify_Webhook.json"

\* the characters the claim allows between the number and '.json'
SafeChars == CharsOf("ABCDEFGHIJKLMNOPQRSTUVWXYZabcdefghijklmnopqrstuvwxyz0123456789_-")

\* s consists of safe characters only and has no run of '_'
SafeText(s) ==
    /\ \A i \in 1..Len(s) : Chr(s, i) \in SafeChars
    /\ ~Contains(s, "__")

\* C16: for every number the registry can reach and every service and
\* purpose text, the generated filename starts with exactly the 4-digit
\* number followed by '_', ends in '.json', and in between has only
\* characters of [A-Za-z0-9_-] and no run of '_'.
C16_FilenameSafety ==
    GeneratedFilename =>
        LET name == probe.out
            stem == SubSeq(name, 1, Len(name) - Len(".json"))
        IN  /\ EndsWith(name, ".json")
            /\ MatchesNumberPrefix(name)
            /\ StrToInt(SubSeq(name, 1, FilenameNumberWidth)) = probe.next_number
            /\ SafeText(stem)

\* the probe holds a call of _determine_purpose that returned
DeterminedPurpose == probe.fn = "_determine_purpose" /\ ~probe.out.raised

\* the categories in their declaration order
CategoryOrder ==
    << "Create", "Update", "Sync", "Send", "Import", "Export", "Monitor", "Process",
       "Automate", "Manage" >>

\* the categories one of whose keywords is in the lower-cased name
MatchingCategories(name) ==
    { i \in 1..Len(CategoryOrder) :
        \E k \in purpose_keywords[i].keywords : Contains(StrLower(name), k) }

\* some lower-cased node type of the list contains one of the words
TypeHint(node_types, words) ==
    \E i \in 1..Len(node_types) : \E w \in words : Contains(StrLower(node_types[i]), w)

\* the purpose the claim gives for a name and a list of node types
ClaimedPurpose(name, node_types) ==
    LET hits == MatchingCategories(name)
    IN  IF hits # {} THEN CategoryOrder[CHOOSE i \in hits : \A j \in hits : i <= j]
        ELSE IF TypeHint(node_types, {"create", "add"}) THEN "Create"
        ELSE IF TypeHint(node_types, {"update", "edit"}) THEN "Update"
        ELSE IF TypeHint(node_types, {"send", "email", "message"}) THEN "Send"
        ELSE "Automation"

C18_RescanReconstructs == pc["A"] = "idle" => FreshlyScanned("A")

\* the last operation was a's add_workflow that returned success with 'added'
AddedBy(a) ==
    /\ result'.op = "add"
    /\ result'.by = a
    /\ ~result'.out.raised
    /\ result'.out.val.success
    /\ result'.out.val.action = "added"

\* what add_workflow has written, given what its analysis synthesized
CopyIntegrityStep(a) ==
    /\ ProceedStep(a) =>
          /\ Synthesizes(a, call'[a].src)
          /\ call'[a].target = TargetOf(a, call'[a].src)
    /\ (CopyStep(a) /\ AddedBy(a)) =>
          /\ result'.out.val.source_file = call[a].src
          /\ result'.out.val.target_file = call[a].target
          /\ call[a].target \in DOMAIN corpus'
          /\ corpus'[call[a].target] = [src |-> call[a].src, complete |-> TRUE]
          /\ call[a].src \in Sources
          /\ SourceFiles[call[a].src].exists

\* C19: a successful non-dry-run add_workflow has copied to the directory
\* entry with exactly the synthesized filename, the entry holds the complete
\* content of the source, and the source file still exists.
C19_CopyIntegrity == [][\A a \in Adders : CopyIntegrityStep(a)]_vars

\* a file has been added under its synthesized name with the source's content
C19_Witness ==
    /\ Added("A", "added")
    /\ result.out.val.target_file = "0001_Gmail_Send.json"
    /\ "0001_Gmail_Send.json" \in DOMAIN corpus
    /\ corpus["0001_Gmail_Send.json"] = [src |-> "gmail.json", complete |-> TRUE]

\* every file of the directory is still there with the same content
EntriesKept == \A f \in DOMAIN corpus : f \in DOMAIN corpus' /\ corpus'[f] = corpus[f]

\* the files the step has added to the directory
NewEntries == (DOMAIN corpus') \ (DOMAIN corpus)

GrowStep ==
    /\ EntriesKept
    /\ \A a \in Adders : (CopyStep(a) /\ AddedBy(a)) => Cardinality(NewEntries) = 1
    /\ (\A a \in Adders : ~CopyStep(a)) => NewEntries = {}

\* C20: no step of an analysis, a dry run or an ingestion, by one adder or by
\* several on the same directory, removes or changes an existing entry of the
\* directory; a successful ingestion adds exactly one new file, and the steps
\* that are not a copy add none.
C20_CorpusOnlyGrows == [][GrowStep]_vars

\* the tasks of s that stand at one of the positions
TasksAt(s, positions) == { i \in 1..Len(s.tasks) : s.tasks[i].pc \in positions }

\* the i-th task has moved in this step
TaskMoved(i) == server'.tasks[i].pc # server.tasks[i].pc

SingleReindexStep ==
    /\ Cardinality(TasksAt(server', {"indexing"})) <= 1
    /\ TasksAt(server', {"try", "indexing", "finally"}) # {} => server'.is_reindexing_flag
    /\ (server.is_reindexing_flag /\ server.handler = "reindex_workflows"
          /\ server'.handler = "idle") =>
          /\ server'.response = "409"
          /\ server'.tasks = server.tasks
    /\ \A i \in 1..Len(server.tasks) :
          /\ (server.is_reindexing_flag /\ server.tasks[i].pc \in {"scheduled", "lock"}
                /\ TaskMoved(i)) => server'.tasks[i].pc = "skipped"
          /\ server.tasks[i].pc = "skipped" => server'.tasks[i].pc = "skipped"
    /\ server.is_reindexing_flag =>
          TasksAt(server', {"try"}) \subseteq TasksAt(server, {"try"})

\* C21: db.index_all_workflows never runs in two tasks at once; a trigger
\* that finds is_reindexing_flag set is rejected (409 for /api/reindex, the
\* post-add task skips), schedules no run, and a skipped task stays skipped.
C21_SingleReindex == [][SingleReindexStep]_vars

\* a reindex is running while one trigger got 409 and a post-add task skipped
C21_Witness ==
    /\ TasksAt(server, {"indexing"}) # {}
    /\ TasksAt(server, {"skipped"}) # {}
    /\ server.response = "409"
    /\ server.is_reindexing_flag

\* the probe holds an analysis that returned a success report
AnalyzedFile ==
    /\ probe.fn = "analyze_workflow_file"
    /\ ~probe.out.raised
    /\ probe.out.val.success

\* the probe holds the analysis of the fixture against an empty corpus
AnalyzedExample ==
    /\ AnalyzedFile
    /\ probe.data = ComplexWorkflow
    /\ probe.next_number = NewAnalyzer(TRUE, {}).next_number

\* what the example reports apart from the complexity
ExampleReport(r) ==
    /\ {"Webhook", "GitHub", "Discord", "Gmail"} \subseteq r.services
    /\ r.trigger_type = "Webhook"
    /\ r.node_count = 5
    /\ r.next_number = 1
    /\ r.suggested_filename \in { "0001_Discord_GitHub_" \o r.purpose \o ".json",
                                  "0001_Discord_GitHub_" \o r.purpose \o "_Webhook.json" }

\* C22 as stated: the example reports the complexity 'Standard'.
C22_ExampleAsStated ==
    (probe.fn = "analyze_workflow_file" /\ probe.data = ComplexWorkflow
        /\ probe.next_number = 1) =>
        /\ AnalyzedExample
        /\ ExampleReport(probe.out.val)
        /\ probe.out.val.complexity = "Standard"

\* C22: analysing the fixture against an empty corpus reports services
\* containing {Webhook, GitHub, Discord, Gmail}, trigger_type 'Webhook',
\* node_count 5, next_number 1, a filename 0001_Discord_GitHub_<purpose>
\* [_Webhook].json, and, with 5 nodes, the complexity 'Simple'.
C22_Example ==
    (probe.fn = "analyze_workflow_file" /\ probe.data = ComplexWorkflow
        /\ probe.next_number = 1) =>
        /\ AnalyzedExample
        /\ ExampleReport(probe.out.val)
        /\ probe.out.val.complexity = "Simple"
        /\ probe.out.val.suggested_filename = "0001_Discord_GitHub_Send_Webhook.json"

\* the fixture has been analysed against an empty corpus
C22_Witness == AnalyzedExample /\ probe.out.val.purpose = "Send"

\* the length of the document's nodes list, 0 when the key is absent
NodesListLength(data) ==
    IF "nodes" \in DOMAIN data.v THEN Len(data.v["nodes"].v) ELSE 0

\* C25: every successful analysis reports as node_count the length of the
\* nodes list (0 when absent) and as complexity 'Simple' for at most 5
\* nodes, 'Standard' for 6 to 15 and 'Complex' for 16 or more.
C25_Complexity ==
    AnalyzedFile =>
        LET r == probe.out.val
        IN /\ r.node_count = NodesListLength(probe.data)
           /\ r.node_count <= 5 => r.complexity = "Simple"
           /\ (r.node_count >= 6 /\ r.node_count <= 15) => r.complexity = "Standard"
           /\ r.node_count >= 16 => r.complexity = "Complex"

\* a workflow of 16 nodes has been analysed as 'Complex'
C25_Witness ==
    /\ AnalyzedFile
    /\ probe.out.val.node_count = 16
    /\ probe.out.val.complexity = "Complex"

\* a workflow without 'nodes' has been analysed
C25_WitnessAbsent ==
    /\ AnalyzedFile
    /\ probe.data = NoNodesWorkflow
    /\ probe.out.val.node_count = 0

Cancelled == Return(Failure("Operation cancelled by user."))

\* what a's add_workflow(path, auto_confirm, dry_run=False) does, up to the
\* copy, when the user types answer
InteractiveAdd(a, path, auto_confirm, answer) ==
    AddWorkflowUntilCopy(analyzer[a].next_number, path, auto_confirm, FALSE, answer)

\* the call is asked to confirm: what it does depends on the answer
AsksConfirmation(a, path, auto_confirm) ==
    \E x \in Answers : \E y \in Answers :
        InteractiveAdd(a, path, auto_confirm, x) # InteractiveAdd(a, path, auto_confirm, y)

\* an interactive call that declines is cancelled, whether or not the target
\* exists (the confirmation comes before the collision check)
ConfirmsBeforeCollisionCheck(a, path) ==
    Synthesizes(a, path) =>
        /\ AsksConfirmation(a, path, FALSE)
        /\ \A x \in Answers :
              ~Confirmed(x) => InteractiveAdd(a, path, FALSE, x) = Cancelled

\* asked maps each answer to what the interactive call does with it, auto
\* to what the auto-confirmed call does: the interactive call is asked to
\* confirm when the target is free, and only then; the auto-confirmed call
\* never is
ConfirmsAfterCollisionCheck(a, path, asked, auto) ==
    Synthesizes(a, path) =>
        /\ IF TargetOf(a, path) \in DOMAIN corpus
           THEN \A x \in Answers : asked[x] = AlreadyExists
           ELSE \A x \in Answers :
                   IF Confirmed(x) THEN Proceeds(asked[x]) ELSE asked[x] = Cancelled
        /\ \A x \in Answers : \A y \in Answers : auto[x] = auto[y]
        /\ \A x \in Answers : auto[x] # Cancelled

\* a's add_workflow returning the cancellation changes nothing, and it is
\* the only way a call with dry_run=False fails once the target is free
CancelStep(a) ==
    /\ (ReturnStep(a) /\ result'.out = Cancelled) =>
          /\ ~result'.out.val.success
          /\ ~result'.dry_run
          /\ TargetOf(a, result'.src) \notin DOMAIN corpus
          /\ corpus' = corpus
          /\ analyzer' = analyzer
    /\ (ReturnStep(a) /\ Synthesizes(a, result'.src) /\ ~result'.dry_run
          /\ TargetOf(a, result'.src) \notin DOMAIN corpus) =>
          result'.out = Cancelled

\* the place of the confirmation in a's add_workflow of path
ConfirmationOrder(a, path) ==
    ConfirmsAfterCollisionCheck(a, path,
        [ x \in Answers |-> InteractiveAdd(a, path, FALSE, x) ],
        [ x \in Answers |-> InteractiveAdd(a, path, TRUE, x) ])

\* C23 as stated: with auto_confirm=false and dry_run=false, add_workflow
\* asks for confirmation after the analysis and before the collision check,
\* so that any answer other than 'yes'/'y' aborts the call as cancelled.
C23_ConfirmationAsStated ==
    \A a \in Adders : \A p \in SharedSources : ConfirmsBeforeCollisionCheck(a, p)

\* C23: with auto_confirm=false and dry_run=false, add_workflow asks for
\* confirmation after the analysis and after the collision check: when the
\* target name exists the call fails with 'already exists' whatever the
\* answer; otherwise any answer other than 'yes'/'y' aborts it with
\* success=false, no file written and the registry unchanged, and 'yes'/'y'
\* lets it go on to the copy. With auto_confirm=true no confirmation is
\* requested.
C23_Confirmation ==
    /\ [](\A a \in Adders : \A p \in SharedSources : ConfirmationOrder(a, p))
    /\ [][\A a \in Adders : CancelStep(a)]_vars

\* an interactive call has just been declined and cancelled
C23_Witness ==
    /\ LastAddFailed("Operation cancelled by user.")
    /\ ~result.dry_run
    /\ AddedFiles # {}

\* the name starts with 4 ASCII digits followed by '_'
StartsWithNumber(f) ==
    /\ Len(f) >= 5
    /\ \A i \in 1..4 : Chr(f, i) \in CharsOf("0123456789")
    /\ Chr(f, 5) = "_"

\* a's registry is the one of a scan of the directory as it is
JustScanned(a) ==
    \/ result.op = "init"
    \/ result.op = "construct" /\ result.by = a

\* the example of the scan
ScanExample ==
    NewAnalyzer(TRUE, { "0001_a.json", "0005_b.json", "0010_c.json", "invalid_name.json" })
        = [existing_numbers |-> {1, 5, 10}, next_number |-> 11]

TargetCarriesNumber(a, path) ==
    Synthesizes(a, path) =>
        /\ StartsWith(TargetOf(a, path), ZeroPad4(analyzer[a].next_number) \o "_")
        /\ FreshlyScanned(a) => TargetOf(a, path) \notin DOMAIN corpus

\* a's add_workflow does not return 'already exists'
NoCollisionStep(a) ==
    (ReturnStep(a) /\ analyzer[a].next_number <= 9999) => result'.out # AlreadyExists

\* C26: for the single adder of the directory with next_number at most 9999,
\* the synthesized target begins with 'NNNN_' for NNNN = next_number and
\* names no existing file, so that no add_workflow call of any sequence of
\* calls returns the 'already exists' failure.
C26_NoCollision ==
    /\ [](analyzer["A"].next_number <= 9999 =>
             \A p \in Sources : TargetCarriesNumber("A", p))
    /\ [][NoCollisionStep("A")]_vars

\* while the registry is what a scan of the directory gives, no call
\* returns 'already exists'
C26_NoCollisionWhileScanned ==
    /\ [](analyzer["A"].next_number <= 9999 =>
             \A p \in Sources : TargetCarriesNumber("A", p))
    /\ [][FreshlyScanned("A") => NoCollisionStep("A")]_vars

\* C27: every file written by a successful /api/add-workflow is eventually
\* covered by a run of db.index_all_workflows that starts after the file
\* was written, also when another reindex is in flight at the moment the
\* post-add task runs.
C27_EventuallyIndexed ==
    \A p \in Uploads : \A n \in RegistryNumbers :
        LET f == AnalysisTable[<< n, p >>].val.suggested_filename
        IN  (f \in server.unindexed) ~> (f \notin server.unindexed)

\* the flag is released by the finally of the task that holds it, whether
\* the indexing returned or raised, and a trigger that finds it released
\* is accepted
ReleaseStep ==
    /\ \A i \in 1..Len(server.tasks) :
          (server.tasks[i].pc = "finally" /\ server'.tasks[i].pc = "done") =>
              ~server'.is_reindexing_flag
    /\ (server.handler = "reindex_workflows" /\ server'.handler = "idle"
          /\ ~server.is_reindexing_flag) =>
              /\ server'.response = "started"
              /\ server'.is_reindexing_flag

\* C28: whenever is_reindexing_flag has been set by /api/reindex or by the
\* post-add task it is eventually set back to false, whether
\* db.index_all_workflows returns or raises, and a trigger that comes when
\* it is false is accepted.
C28_GuardReleased ==
    /\ server.is_reindexing_flag ~> ~server.is_reindexing_flag
    /\ [][ReleaseStep]_vars

\* an indexing that raised has ended with the flag released, and a later
\* trigger has been accepted
C28_Witness ==
    /\ \E i \in 1..Len(server.tasks) :
          server.tasks[i].pc = "done" /\ server.tasks[i].ended = "raised"
    /\ \E i \in 1..Len(server.tasks) : server.tasks[i].pc = "try"
    /\ server.response = "started"

\* the digits a string starts with
RECURSIVE LeadingDigits(_)
LeadingDigits(s) ==
    IF Len(s) = 0 \/ ~IsDigit(Chr(s, 1)) THEN ""
    ELSE Chr(s, 1) \o LeadingDigits(StrTail(s, 2))

\* the last operation returned a success report that names a file
ReportsFilename ==
    /\ result.op \in {"analyze", "add"}
    /\ ~result.out.raised
    /\ result.out.val.success

\* the file name and the number of the report the last operation returned
ReportedFilename ==
    IF result.op = "analyze" THEN result.out.val.suggested_filename
    ELSE result.out.val.target_file

ReportedNumber ==
    IF result.op = "analyze" THEN result.out.val.next_number ELSE result.out.val.number

\* digits is the decimal writing of n, filled with zeros on the left up to
\* 4 digits
IsPadded(digits, n) ==
    /\ StrToInt(digits) = n
    /\ Len(digits) >= 4
    /\ Len(digits) > 4 => Chr(digits, 1) # "0"

\* a successful copy commits the number that prefixes the file it wrote
CommitsPrefixStep(a) ==
    (CopyStep(a) /\ CopySucceeded) =>
        /\ call[a].target \in DOMAIN corpus'
        /\ corpus'[call[a].target].src = call[a].src
        /\ result'.out.val.target_file = call[a].target
        /\ analyzer'[a].existing_numbers =
              analyzer[a].existing_numbers \cup {StrToInt(LeadingDigits(call[a].target))}
        /\ StrToInt(LeadingDigits(call[a].target)) \notin analyzer[a].existing_numbers

\* C29: in every successful analysis report (and in the report of every
\* successful add_workflow) the leading digits of the file name are the
\* reported number zero-padded to 4 digits, and a successful non-dry-run
\* add_workflow adds to existing_numbers the number that prefixes the file
\* it has just written.
C29_NumbersAgree ==
    /\ [](ReportsFilename => IsPadded(LeadingDigits(ReportedFilename), ReportedNumber))
    /\ [][CommitsPrefixStep("A")]_vars

\* a workflow has just been added under a number above the one of the scan
C29_Witness ==
    /\ ReportsFilename
    /\ result.op = "add"
    /\ ~result.dry_run
    /\ result.out.val.action = "added"
    /\ Cardinality(AddedFiles) = MaxAdded
    /\ result.out.val.number \in analyzer["A"].existing_numbers

\* some file argument does not pass the validation
SomeInvalid(files) == \E i \in 1..Len(files) : ~ValidationTable[files[i]].success

\* this step is main starting on file arguments
MainStartStep == cli.status = "idle" /\ cli'.status # "idle"

\* this step is main ending after add_workflow or add_multiple_workflows
MainEndStep ==
    /\ cli.status \in {"add_workflow", "in_batch"}
    /\ cli'.status = "exited"

\* every ingestion of the run that ends with this step has succeeded
EveryIngestionSucceeded ==
    IF Len(cli.files) = 1
    THEN /\ result'.op = "add"
         /\ result'.src = cli.files[1]
         /\ ~result'.out.raised
         /\ result'.out.val.success
    ELSE /\ batch'.status = "returned"
         /\ Len(batch'.results) = Len(cli.files)
         /\ \A i \in 1..Len(batch'.results) : batch'.results[i].success

CliStep ==
    /\ (MainStartStep /\ SomeInvalid(cli'.files)) =>
          /\ cli'.status = "exited"
          /\ cli'.exit = 1
          /\ corpus' = corpus
          /\ analyzer'["A"] = NewAnalyzer(TRUE, DOMAIN corpus)
          /\ pc' = pc
          /\ batch' = batch
    /\ (MainStartStep /\ cli'.files # << >> /\ ~SomeInvalid(cli'.files)) =>
          cli'.status \in {"add_workflow", "add_multiple_workflows"}
    /\ MainEndStep =>
          /\ ~SomeInvalid(cli.files)
          /\ cli'.exit \in {0, 1}
          /\ cli'.exit = 0 <=> EveryIngestionSucceeded

\* C30: when main is given explicit file arguments of which at least one
\* fails validation, it ends with exit code 1 without adding any of the
\* files (the directory is unchanged and the registry is the one of the
\* scan); when all are valid the exit code is 0 exactly when every
\* ingestion succeeded and 1 otherwise.
C30_CliPreValidation == [][CliStep]_vars

\* main has refused a list that holds a valid and an invalid file, on a
\* directory that holds files
C30_Witness ==
    /\ cli.status = "exited"
    /\ cli.exit = 1
    /\ Len(cli.files) = 2
    /\ SomeInvalid(cli.files)
    /\ \E i \in 1..2 : ValidationTable[cli.files[i]].success
    /\ DOMAIN corpus # {}
    /\ AddedFiles = {}

\* main has ended with exit code 0 after a batch of two files
C30_WitnessSuccess ==
    /\ cli.status = "exited"
    /\ cli.exit = 0
    /\ Len(cli.files) = 2
    /\ ~cli.dry_run
    /\ Cardinality(AddedFiles) = 2

====
